---- MODULE Spec2Model ----
(***************************************************************************)
(* WhatsApp Messager v3.0: the decision layer of the sales operator.       *)
(* Inbound handling (consent, escalation, pipeline, CCB, safeSend), the    *)
(* kill switch with its consecutive-error breaker, the outreach campaign   *)
(* and the control-plane routes that mutate the same store.                *)
(*                                                                         *)
(* Node runs one callback at a time, so a step of this model is the code   *)
(* that runs between two suspension points (await of a language-model      *)
(* call, of a timer, of the transport).  Texts are sequences of            *)
(* one-character strings, so that toLowerCase, trim and includes are       *)
(* computed as the code computes them.                                     *)
(*                                                                         *)
(* Specifications:                                                         *)
(*   Spec         concurrent inbound handling for two contacts, with the   *)
(*                operator's per-contact requests                          *)
(*   SpecBreaker  the consecutive-error breaker and the kill switch        *)
(*   SpecInbound  one inbound message for a contact in any stored row      *)
(*   SpecStage    getNextStage on every stage and classifier answer        *)
(*   SpecOutreach the campaign next to inbound messages and the operator   *)
(*   SpecRisk     risk_score under escalation and CCB answers              *)
(*   SpecRejection  inbound texts that decline, under any classifier answer *)
(*   SpecValidate validator.validate on messages, settings and stages      *)
(*   SpecFingerprint  fingerprint.isTooSimilar and jaccardSimilarity        *)
(*   SpecAutomation  every automatic operation next to takeover and resume *)
(*   SpecCanSend  killSwitch.canSend on every row, toggle and error count   *)
(*   SpecFollowup the follow-up sweeps over contacts in any history         *)
(*   SpecOutreachFair  SpecOutreach with a campaign that always resumes    *)
(*   SpecCCB      processMessage on histories of up to 52 stored rows       *)
(*   SpecGenerate generateCCB under null and arbitrary pass answers         *)
(*   SpecNudge    sweeps over one contact whose history grows               *)
(* The language model is a collaborator: its answers are arbitrary values  *)
(* of the shape the code reads; a missing client and a failed call both    *)
(* show as the null answer.                                                *)
(***************************************************************************)
EXTENDS Integers, Sequences, FiniteSets, TLC

VARIABLES
    contacts,    \* contacts table: phone -> row (exists = FALSE: no row)
    conv,        \* conversations table: phone -> number of rows
    settings,    \* settings table: key -> stored string
    errorCount,  \* killSwitch.errorCount
    events,      \* rows appended to the append-only events table by the latest step
    handlers,    \* in-flight handleIncomingMessage calls
    campaign,    \* the prepareCampaign / executeCampaign task
    arrived,     \* number of inbound messages received so far
    ops,         \* number of control-plane requests served so far
    failedRuns,  \* history: finished handlings in a row whose send failed at the transport
    fin,         \* function harness: the arguments under evaluation
    fout,        \* function harness: the value the function returned
    risk,        \* contacts.risk_score: phone -> stored value
    turns,       \* conversations table: phone -> directions of its rows, oldest first
    elapsed,     \* phone -> minutes since created_at of the contact's latest row
    messageQueue \* message_queue table: the rows queue.add has inserted

followupVars == <<turns, elapsed, messageQueue>>

vars == <<contacts, conv, settings, errorCount, events, handlers, campaign,
          arrived, ops, failedRuns, fin, fout, risk, followupVars>>

-----------------------------------------------------------------------------
(* Bounds *)

MaxInbound == 2    \* inbound messages received in one run of Spec
MaxSerial == 3     \* inbound messages received in one run of SpecBreaker
MaxReply == 1      \* fragments in one generated reply
MaxOps == 1        \* control-plane requests served in one run
MaxErrCount == 4   \* recordError is explored up to this counter value

Phones == {"p1", "p2"}
Handlers == {1, 2}

-----------------------------------------------------------------------------
(* Text primitives *)

UpperChars == <<"A","B","C","D","E","F","G","H","I","J","K","L","M","N","O","P",
                "Q","R","S","T","U","V","W","X","Y","Z","Ä","Ö","Ü">>
LowerChars == <<"a","b","c","d","e","f","g","h","i","j","k","l","m","n","o","p",
                "q","r","s","t","u","v","w","x","y","z","ä","ö","ü">>

LowerChar(c) ==
    IF \E i \in 1..Len(UpperChars) : UpperChars[i] = c
    THEN LowerChars[CHOOSE i \in 1..Len(UpperChars) : UpperChars[i] = c]
    ELSE c

ToLowerCase(s) == [i \in 1..Len(s) |-> LowerChar(s[i])]

RECURSIVE TrimStart(_)
TrimStart(s) == IF s # <<>> /\ Head(s) = " " THEN TrimStart(Tail(s)) ELSE s

RECURSIVE TrimEnd(_)
TrimEnd(s) ==
    IF s # <<>> /\ s[Len(s)] = " " THEN TrimEnd(SubSeq(s, 1, Len(s) - 1)) ELSE s

Trim(s) == TrimEnd(TrimStart(s))

Includes(s, kw) ==
    \E i \in 1..(Len(s) - Len(kw) + 1) : SubSeq(s, i, i + Len(kw) - 1) = kw

\* number of non-overlapping matches of kw in s, scanning left to right
RECURSIVE CountMatches(_, _)
CountMatches(s, kw) ==
    IF Len(s) < Len(kw) THEN 0
    ELSE IF SubSeq(s, 1, Len(kw)) = kw
         THEN 1 + CountMatches(SubSeq(s, Len(kw) + 1, Len(s)), kw)
         ELSE CountMatches(Tail(s), kw)

Digits == <<"0","1","2","3","4","5","6","7","8","9">>
IsDigit(c) == \E d \in 1..10 : Digits[d] = c
DigitVal(c) == (CHOOSE d \in 1..10 : Digits[d] = c) - 1

\* the longest prefix of s made of digits and commas
RECURSIVE AmountRun(_)
AmountRun(s) ==
    IF s # <<>> /\ (IsDigit(Head(s)) \/ Head(s) = ",")
    THEN <<Head(s)>> \o AmountRun(Tail(s))
    ELSE <<>>

\* parseInt of a run with its commas removed; -1 stands for NaN
RECURSIVE ParseDigits(_, _)
ParseDigits(s, acc) ==
    IF s = <<>> THEN acc
    ELSE IF Head(s) = "," THEN ParseDigits(Tail(s), acc)
    ELSE ParseDigits(Tail(s), (IF acc < 0 THEN 0 ELSE acc) * 10 + DigitVal(Head(s)))

\* the values of the matches of /\$[\d,]+/g in s
RECURSIVE Amounts(_)
Amounts(s) ==
    IF s = <<>> THEN {}
    ELSE IF Head(s) = "$" /\ AmountRun(Tail(s)) # <<>>
         THEN {ParseDigits(AmountRun(Tail(s)), -1)}
              \cup Amounts(SubSeq(s, 2 + Len(AmountRun(Tail(s))), Len(s)))
         ELSE Amounts(Tail(s))

-----------------------------------------------------------------------------
(* Keyword lists of the safety core *)

DND_KEYWORDS ==
  << <<"s","t","o","p">>,
     <<"u","n","s","u","b","s","c","r","i","b","e">>,
     <<"r","e","m","o","v","e"," ","m","e">>,
     <<"d","o","n","'","t"," ","c","o","n","t","a","c","t">>,
     <<"l","e","a","v","e"," ","m","e"," ","a","l","o","n","e">>,
     <<"b","l","o","c","k">>,
     <<"n","o"," ","m","o","r","e"," ","m","e","s","s","a","g","e","s">>,
     <<"o","p","t"," ","o","u","t">>,
     <<"o","p","t","-","o","u","t">>,
     <<"d","e","l","e","t","e"," ","m","y"," ","n","u","m","b","e","r">>,
     <<"h","ö","r"," ","a","u","f">>,
     <<"l","a","s","s"," ","m","i","c","h"," ","i","n"," ","r","u","h","e">>,
     <<"n","i","c","h","t"," ","m","e","h","r"," ","s","c","h","r","e","i","b","e","n">>,
     <<"b","i","t","t","e"," ","a","u","f","h","ö","r","e","n">>,
     <<"k","e","i","n","e"," ","n","a","c","h","r","i","c","h","t","e","n"," ","m","e","h","r">>,
     <<"l","ö","s","c","h"," ","m","e","i","n","e"," ","n","u","m","m","e","r">>,
     <<"s","c","h","r","e","i","b"," ","m","i","r"," ","n","i","c","h","t"," ","m","e","h","r">>,
     <<"w","i","l","l"," ","k","e","i","n","e"," ","n","a","c","h","r","i","c","h","t","e","n">> >>

ESCALATION_KEYWORDS ==
  << <<"c","o","n","t","r","a","c","t">>,
     <<"c","o","n","t","r","a","c","t","s">>,
     <<"l","e","g","a","l"," ","a","g","r","e","e","m","e","n","t">>,
     <<"g","u","a","r","a","n","t","e","e">>,
     <<"g","u","a","r","a","n","t","e","e","s">>,
     <<"s","c","a","m">>,
     <<"f","r","a","u","d">>,
     <<"f","a","k","e">>,
     <<"p","o","n","z","i">>,
     <<"l","a","w","y","e","r">>,
     <<"a","t","t","o","r","n","e","y">>,
     <<"s","u","e">>,
     <<"w","a","l","l","e","t"," ","a","d","d","r","e","s","s">>,
     <<"s","e","n","d"," ","m","o","n","e","y">>,
     <<"w","i","r","e"," ","t","r","a","n","s","f","e","r">>,
     <<"p","a","y","m","e","n","t">>,
     <<"b","a","n","k"," ","t","r","a","n","s","f","e","r">> >>

\* the alternatives of the anger / threat pattern
ANGER_WORDS ==
  { <<"f","u","c","k">>,
    <<"s","h","i","t">>,
    <<"t","h","r","e","a","t">>,
    <<"k","i","l","l">>,
    <<"h","u","r","t">>,
    <<"r","e","p","o","r","t">>,
    <<"p","o","l","i","c","e">>,
    <<"a","u","t","h","o","r","i","t","i","e","s">> }

-----------------------------------------------------------------------------
(* Data model *)

STAGES == <<"INTRO", "QUALIFYING", "VALUE_DELIVERY", "BOOKING", "FOLLOW_UP",
            "WON", "LOST", "DND">>
Stages == {STAGES[i] : i \in 1..Len(STAGES)}

Intents == {"greeting", "question", "interest", "not_interested", "objection",
            "confirmation", "thanks", "appointment", "pricing", "other"}

Consents == {"UNKNOWN", "SOFT_OPTIN_SENT", "OPTED_IN", "DND"}

\* a phone without a row in the contacts table
NoRow == [exists |-> FALSE, consent_status |-> "UNKNOWN", pipeline_stage |-> "INTRO",
          bot_paused |-> FALSE, human_required |-> FALSE, ccb |-> FALSE]

\* the row INSERT OR IGNORE creates: the column defaults of the schema
NewRow == [NoRow EXCEPT !.exists = TRUE]

Ev(type, phone, detail) == [type |-> type, phone |-> phone, detail |-> detail]

\* db.js contacts.add: INSERT OR IGNORE
ContactsAdd(cs, p) == IF cs[p].exists THEN cs ELSE [cs EXCEPT ![p] = NewRow]

\* UPDATE contacts SET ... WHERE phone = ?  changes nothing when there is no row
SetStageRow(cs, p, stage) ==
    IF cs[p].exists THEN [cs EXCEPT ![p].pipeline_stage = stage] ELSE cs

SetConsentRow(cs, p, status) ==
    IF cs[p].exists THEN [cs EXCEPT ![p].consent_status = status] ELSE cs

SetDNDRow(cs, p) ==
    IF cs[p].exists
    THEN [cs EXCEPT ![p].consent_status = "DND", ![p].bot_paused = TRUE]
    ELSE cs

SetHumanRequiredRow(cs, p, required) ==
    IF cs[p].exists THEN [cs EXCEPT ![p].human_required = required] ELSE cs

SetPausedRow(cs, p, paused) ==
    IF cs[p].exists THEN [cs EXCEPT ![p].bot_paused = paused] ELSE cs

SetCCBRowClearingFlag(cs, p) ==
    IF cs[p].exists THEN [cs EXCEPT ![p].ccb = TRUE, ![p].human_required = FALSE] ELSE cs

SetCCBRow(cs, p) ==
    IF cs[p].exists THEN [cs EXCEPT ![p].ccb = TRUE] ELSE cs

\* db.js contacts.isSendAllowed
IsSendAllowed(cs, p) ==
    IF ~cs[p].exists THEN TRUE
    ELSE IF cs[p].consent_status = "DND" THEN FALSE
    ELSE IF cs[p].bot_paused THEN FALSE
    ELSE IF cs[p].human_required THEN FALSE
    ELSE TRUE

\* db.js settings.isGlobalSendEnabled / isAutoReplyEnabled
IsGlobalSendEnabled(st) == st.global_send_enabled = "true"
IsAutoReplyEnabled(st) == st.auto_reply_enabled = "true"

-----------------------------------------------------------------------------
(* Kill switch *)

maxConsecutiveErrors == 3

CanSendContactFirst(cs, st, p) ==
    IF ~IsSendAllowed(cs, p) THEN [allowed |-> FALSE, reason |-> "contact_blocked"]
    ELSE IF ~IsGlobalSendEnabled(st) THEN [allowed |-> FALSE, reason |-> "global_send_disabled"]
    ELSE [allowed |-> TRUE, reason |-> "none"]

\* killSwitch.canSend: layers 1 and 2
CanSend(cs, st, p) ==
    IF ~IsGlobalSendEnabled(st) THEN [allowed |-> FALSE, reason |-> "global_send_disabled"]
    ELSE IF ~IsSendAllowed(cs, p) THEN [allowed |-> FALSE, reason |-> "contact_blocked"]
    ELSE [allowed |-> TRUE, reason |-> "none"]

\* recordError with > in place of >=: the breaker would trip one error late
RecordErrorLate(st, n) ==
    IF n + 1 > maxConsecutiveErrors
    THEN [count |-> n + 1,
          settings |-> [st EXCEPT !.global_send_enabled = "false"],
          events |-> <<Ev("CIRCUIT_BREAKER_TRIPPED", "SYSTEM", <<"consecutive_errors", n + 1>>)>>]
    ELSE [count |-> n + 1, settings |-> st, events |-> <<>>]

\* killSwitch.recordError: the state it leaves, and the events it appends
RecordError(st, n) ==
    IF n + 1 >= maxConsecutiveErrors
    THEN [count |-> n + 1,
          settings |-> [st EXCEPT !.global_send_enabled = "false"],
          events |-> <<Ev("CIRCUIT_BREAKER_TRIPPED", "SYSTEM", <<"consecutive_errors", n + 1>>)>>]
    ELSE [count |-> n + 1, settings |-> st, events |-> <<>>]

\* killSwitch.recordSuccess
RecordSuccess(n) == 0

-----------------------------------------------------------------------------
(* Consent engine and escalation engine *)

\* checkDND without toLowerCase: only lower-case opt-outs would be seen
CheckDNDExactCase(message) ==
    \E k \in 1..Len(DND_KEYWORDS) : Includes(Trim(message), DND_KEYWORDS[k])

\* checkDND with equality in place of includes
CheckDNDWholeMessage(message) ==
    LET lower == Trim(ToLowerCase(message))
    IN  \E k \in 1..Len(DND_KEYWORDS) : lower = DND_KEYWORDS[k]

\* consent.checkDND
CheckDND(message) ==
    LET lower == Trim(ToLowerCase(message))
    IN  \E k \in 1..Len(DND_KEYWORDS) : Includes(lower, DND_KEYWORDS[k])

\* escalation.check: the number of triggers it collects
EscalationTriggers(message) ==
    LET lower == ToLowerCase(message)
        kws == Cardinality({k \in 1..Len(ESCALATION_KEYWORDS) :
                              Includes(lower, ESCALATION_KEYWORDS[k])})
        scam == IF CountMatches(lower, <<"s","c","a","m">>) >= 2 THEN 1 ELSE 0
        high == IF \E a \in Amounts(message) : a > 10000 THEN 1 ELSE 0
        anger == IF \E w \in ANGER_WORDS : Includes(lower, w) THEN 1 ELSE 0
    IN  kws + scam + high + anger

-----------------------------------------------------------------------------
(* Validator gate.  An outbound message is the record of what the rules    *)
(* read from it: its length and which rule patterns occur in it.           *)

MaxCharsPerMessage == 420

Msg(len, claim, pattern, link, identity) ==
    [len |-> len, claim |-> claim, pattern |-> pattern, link |-> link, identity |-> identity]

\* "Alles klar, werde mich nicht mehr melden. Alles Gute!"
AckReply == Msg(53, FALSE, FALSE, FALSE, FALSE)
\* "Gute Frage, da verbinde ich dich am besten mit einem Kollegen ..."
HoldingReply == Msg(103, FALSE, FALSE, FALSE, FALSE)
\* generated replies: a plain sentence, and one carrying the booking link
PlainMsg == Msg(40, FALSE, FALSE, FALSE, FALSE)
LinkMsg == Msg(90, FALSE, FALSE, TRUE, FALSE)
ReplyMessages == {PlainMsg, LinkMsg}

FORBIDDEN_CLAIMS ==
  << <<"g","u","a","r","a","n","t","e","e","d"," ","r","e","t","u","r","n">>,
     <<"g","u","a","r","a","n","t","e","e","d"," ","r","o","i">>,
     <<"g","u","a","r","a","n","t","e","e","d"," ","p","r","o","f","i","t">>,
     <<"r","i","s","k","-","f","r","e","e">>,
     <<"r","i","s","k"," ","f","r","e","e">>,
     <<"n","o"," ","r","i","s","k">>,
     <<"z","e","r","o"," ","r","i","s","k">>,
     <<"g","u","a","r","a","n","t","e","e","d"," ","a","p","y">>,
     <<"g","u","a","r","a","n","t","e","e","d"," ","y","i","e","l","d">>,
     <<"w","e"," ","p","r","o","m","i","s","e">>,
     <<"i"," ","p","r","o","m","i","s","e">>,
     <<"i"," ","g","u","a","r","a","n","t","e","e">>,
     <<"l","e","g","a","l"," ","a","d","v","i","c","e">>,
     <<"l","e","g","a","l"," ","p","r","o","t","e","c","t","i","o","n">>,
     <<"i","n","v","e","s","t","m","e","n","t"," ","a","d","v","i","c","e">>,
     <<"f","i","n","a","n","c","i","a","l"," ","a","d","v","i","c","e">>,
     <<"y","o","u"," ","w","i","l","l"," ","m","a","k","e">>,
     <<"y","o","u","'","l","l"," ","m","a","k","e">>,
     <<"d","o","u","b","l","e"," ","y","o","u","r"," ","m","o","n","e","y">>,
     <<"t","r","i","p","l","e"," ","y","o","u","r"," ","m","o","n","e","y">> >>

\* the longest prefix of s made of digits
RECURSIVE DigitRun(_)
DigitRun(s) ==
    IF s # <<>> /\ IsDigit(Head(s)) THEN <<Head(s)>> \o DigitRun(Tail(s)) ELSE <<>>

\* parseInt(s) for unsigned decimal text: leading blanks are skipped, the digits
\* up to the first other character are read; -1 stands for NaN
ParseInt(s) ==
    LET run == DigitRun(TrimStart(s))
    IN  IF run = <<>> THEN -1 ELSE ParseDigits(run, -1)

\* the alternatives of /https?:\/\/|www\.|\.com|\.io|\.org/i
LinkTokens ==
    { <<"h","t","t","p",":","/","/">>, <<"h","t","t","p","s",":","/","/">>,
      <<"w","w","w",".">>, <<".","c","o","m">>, <<".","i","o">>, <<".","o","r","g">> }

\* the link test reading only the scheme alternatives
HasLinksSchemeOnly(text) ==
    \E tok \in {t \in LinkTokens : Head(t) = "h"} : Includes(ToLowerCase(text), tok)

\* hasLinks of validate
HasLinks(text) == \E tok \in LinkTokens : Includes(ToLowerCase(text), tok)

\* the stored default of max_chars_per_message, and the fallback of validate
DefaultMaxChars == <<"4","2","0">>

\* lowerMsg.includes(claim) for some claim of FORBIDDEN_CLAIMS
HasForbiddenClaimExactCase(text) ==
    \E k \in 1..Len(FORBIDDEN_CLAIMS) : Includes(text, FORBIDDEN_CLAIMS[k])

HasForbiddenClaim(text) ==
    \E k \in 1..Len(FORBIDDEN_CLAIMS) : Includes(ToLowerCase(text), FORBIDDEN_CLAIMS[k])

\* message.length > maxChars; a comparison with NaN is false
TooLongByTwo(len, maxChars) == maxChars >= 0 /\ len > maxChars + 1

TooLong(len, maxChars) == maxChars >= 0 /\ len > maxChars

\* validator.validate: the rules that report a violation.  maxSetting and
\* policySetting are the stored settings (<<>>, "": absent), contactStage the
\* contact's stage ("missing": no contact, or no phone in the context)
Validate(m, maxSetting, policySetting, contactStage) ==
    LET maxChars == ParseInt(IF maxSetting = <<>> THEN DefaultMaxChars ELSE maxSetting)
        linkPolicy == IF policySetting = "" THEN "no_links_until_engagement"
                      ELSE policySetting
        stage == IF contactStage = "missing" THEN "INTRO" ELSE contactStage
    IN  (IF TooLong(m.len, maxChars) THEN {"length"} ELSE {})
        \cup (IF m.claim THEN {"forbidden_claim"} ELSE {})
        \cup (IF m.pattern THEN {"forbidden_pattern"} ELSE {})
        \cup (IF m.link /\ linkPolicy = "no_links_until_engagement"
                 /\ stage \in {"INTRO", "QUALIFYING"}
              THEN {"link_policy"} ELSE {})
        \cup (IF m.identity THEN {"identity"} ELSE {})

\* validate answering valid only for a message that also has a call to action
ValidateResultNeedingCTA(m, hasCTA, maxSetting, policySetting, contactStage) ==
    LET v == Validate(m, maxSetting, policySetting, contactStage)
    IN  [valid |-> v = {} /\ hasCTA, violations |-> v, hasCTA |-> hasCTA]

\* the object validate returns: valid, violations and the hasCTA advisory
ValidateResult(m, hasCTA, maxSetting, policySetting, contactStage) ==
    LET v == Validate(m, maxSetting, policySetting, contactStage)
    IN  [valid |-> v = {}, violations |-> v, hasCTA |-> hasCTA]

\* validate as safeSend calls it, with the settings at their stored defaults
Violations(m, cs, p) ==
    Validate(m, DefaultMaxChars, "no_links_until_engagement",
             IF cs[p].exists THEN cs[p].pipeline_stage ELSE "missing")

-----------------------------------------------------------------------------
(* Stage machine *)

\* the table without the confirmation line of INTRO
GetNextStageUnconfirmed(currentStage, intent) ==
    CASE currentStage = "INTRO" ->
           IF intent \in {"interest", "question", "pricing", "greeting"} THEN "QUALIFYING"
           ELSE IF intent = "not_interested" THEN "LOST"
           ELSE "INTRO"
      [] currentStage = "QUALIFYING" ->
           IF intent = "appointment" THEN "BOOKING"
           ELSE IF intent = "not_interested" THEN "LOST"
           ELSE IF intent \in {"interest", "confirmation", "question", "thanks"}
                THEN "VALUE_DELIVERY"
           ELSE "QUALIFYING"
      [] currentStage = "VALUE_DELIVERY" ->
           IF intent \in {"appointment", "confirmation", "interest", "thanks"} THEN "BOOKING"
           ELSE IF intent = "not_interested" THEN "LOST"
           ELSE "VALUE_DELIVERY"
      [] currentStage = "BOOKING" ->
           IF intent = "confirmation" THEN "WON"
           ELSE IF intent = "not_interested" THEN "LOST"
           ELSE "BOOKING"
      [] currentStage = "FOLLOW_UP" ->
           IF intent \in {"interest", "question", "confirmation"} THEN "QUALIFYING"
           ELSE IF intent = "not_interested" THEN "LOST"
           ELSE "FOLLOW_UP"
      [] currentStage = "WON" -> "WON"
      [] currentStage = "LOST" -> IF intent = "interest" THEN "QUALIFYING" ELSE "LOST"
      [] currentStage = "DND" -> "DND"
      [] OTHER -> currentStage

\* pipeline/index.js transitions + getNextStage
GetNextStage(currentStage, intent) ==
    CASE currentStage = "INTRO" ->
           IF intent \in {"interest", "question", "pricing", "greeting"} THEN "QUALIFYING"
           ELSE IF intent = "not_interested" THEN "LOST"
           ELSE IF intent = "confirmation" THEN "QUALIFYING"
           ELSE "INTRO"
      [] currentStage = "QUALIFYING" ->
           IF intent = "appointment" THEN "BOOKING"
           ELSE IF intent = "not_interested" THEN "LOST"
           ELSE IF intent \in {"interest", "confirmation", "question", "thanks"}
                THEN "VALUE_DELIVERY"
           ELSE "QUALIFYING"
      [] currentStage = "VALUE_DELIVERY" ->
           IF intent \in {"appointment", "confirmation", "interest", "thanks"} THEN "BOOKING"
           ELSE IF intent = "not_interested" THEN "LOST"
           ELSE "VALUE_DELIVERY"
      [] currentStage = "BOOKING" ->
           IF intent = "confirmation" THEN "WON"
           ELSE IF intent = "not_interested" THEN "LOST"
           ELSE "BOOKING"
      [] currentStage = "FOLLOW_UP" ->
           IF intent \in {"interest", "question", "confirmation"} THEN "QUALIFYING"
           ELSE IF intent = "not_interested" THEN "LOST"
           ELSE "FOLLOW_UP"
      [] currentStage = "WON" -> "WON"
      [] currentStage = "LOST" -> IF intent = "interest" THEN "QUALIFYING" ELSE "LOST"
      [] currentStage = "DND" -> "DND"
      [] OTHER -> currentStage

-----------------------------------------------------------------------------
(* Inbound handling *)

\* conversations.add: one more row for the contact
AddTurn(ts, p, direction) == [ts EXCEPT ![p] = Append(@, direction)]

IdleHandler == [pc |-> "idle", phone |-> "none", kind |-> "none", queue |-> <<>>,
                failed |-> FALSE]

ProcessInboundUnknownOnly(cs, p, isDND) ==
    IF ~cs[p].exists THEN [cs |-> cs, events |-> <<>>, action |-> "none"]
    ELSE IF isDND
    THEN [cs |-> SetDNDRow(cs, p), events |-> <<Ev("DND_SET", p, <<>>)>>,
          action |-> "dnd_set"]
    ELSE IF cs[p].consent_status = "UNKNOWN"
    THEN [cs |-> SetConsentRow(cs, p, "OPTED_IN"),
          events |-> <<Ev("CONSENT_CHANGED", p, <<"OPTED_IN">>)>>, action |-> "opted_in"]
    ELSE [cs |-> cs, events |-> <<>>, action |-> "none"]

\* consent.processInbound; isDND is the value of consent.checkDND(message)
ProcessInbound(cs, p, isDND) ==
    IF ~cs[p].exists THEN [cs |-> cs, events |-> <<>>, action |-> "none"]
    ELSE IF isDND
    THEN [cs |-> SetDNDRow(cs, p), events |-> <<Ev("DND_SET", p, <<>>)>>,
          action |-> "dnd_set"]
    ELSE IF cs[p].consent_status \in {"UNKNOWN", "SOFT_OPTIN_SENT"}
    THEN [cs |-> SetConsentRow(cs, p, "OPTED_IN"),
          events |-> <<Ev("CONSENT_CHANGED", p, <<"OPTED_IN">>)>>, action |-> "opted_in"]
    ELSE [cs |-> cs, events |-> <<>>, action |-> "none"]

EscalatedRiskUncapped(r, n) == r + n * 15

\* escalation.execute: the risk_score it stores
EscalatedRisk(r, n) == IF r + n * 15 > 100 THEN 100 ELSE r + n * 15

\* escalation.execute with n triggers
EscalationExecute(cs, p, n) ==
    [cs |-> SetHumanRequiredRow(cs, p, TRUE),
     events |-> <<Ev("HUMAN_TAKEOVER", p, <<>>), Ev("ESCALATION_TRIGGERED", p, <<n>>)>>]

SafeSendGatesWithoutValidator(cs, st, p, m, similar) ==
    LET gate == CanSend(cs, st, p)
    IN  IF ~gate.allowed
        THEN [go |-> FALSE, events |-> <<Ev("SEND_BLOCKED", p, <<gate.reason>>)>>]
        ELSE [go |-> TRUE,
              events |-> IF similar THEN <<Ev("FINGERPRINT_FLAGGED", p, <<>>)>> ELSE <<>>]

\* safeSend up to its sleep: gates 1 to 3.  similar is the verdict of
\* fingerprint.isTooSimilar, which only logs.
SafeSendGates(cs, st, p, m, similar) ==
    LET gate == CanSend(cs, st, p)
        bad == Violations(m, cs, p)
    IN  IF ~gate.allowed
        THEN [go |-> FALSE, events |-> <<Ev("SEND_BLOCKED", p, <<gate.reason>>)>>]
        ELSE IF bad # {}
        THEN [go |-> FALSE, events |-> <<Ev("VALIDATION_FAILED", p, <<bad>>)>>]
        ELSE [go |-> TRUE,
              events |-> IF similar THEN <<Ev("FINGERPRINT_FLAGGED", p, <<>>)>> ELSE <<>>]

\* the for loop over the reply fragments, from the head of queue on, up to the
\* first fragment that passes the gates and starts its pre-send sleep
RECURSIVE SendLoop(_, _, _, _, _)
SendLoop(cs, st, p, queue, similar) ==
    IF queue = <<>> THEN [queue |-> <<>>, events |-> <<>>]
    ELSE LET g == SafeSendGates(cs, st, p, Head(queue), similar)
         IN  IF g.go THEN [queue |-> queue, events |-> g.events]
             ELSE LET rest == SendLoop(cs, st, p, Tail(queue), similar)
                  IN  [queue |-> rest.queue, events |-> g.events \o rest.events]

\* failedRuns counts the handlings that ran one after the other, each alone, and
\* each ended with its send failing; -1 while handlings overlap
Overlaps(h) == \E g \in Handlers \ {h} : handlers[g].pc # "idle"

RunStart(h) == IF Overlaps(h) THEN -1 ELSE failedRuns

AfterRun(h, failed) ==
    IF Overlaps(h) THEN -1
    ELSE IF failedRuns < 0 THEN 0
    ELSE IF failed
    THEN (IF failedRuns < maxConsecutiveErrors THEN failedRuns + 1 ELSE failedRuns)
    ELSE 0

-----------------------------------------------------------------------------
(* Inbound message bodies *)

\* "Bitte STOP"
TxtStop == <<"B","i","t","t","e"," ","S","T","O","P">>
\* "HÖR AUF"
TxtHoerAuf == <<"H","Ö","R"," ","A","U","F">>
\* "Ja gern"
TxtJa == <<"J","a"," ","g","e","r","n">>
\* "Scam"
TxtScam == <<"S","c","a","m">>
\* a body of blanks (media without text)
TxtBlank == <<" ", " ">>

InboundBodies == {TxtStop, TxtHoerAuf, TxtJa, TxtScam, TxtBlank}

\* "Nein danke": a refusal that is neither an opt-out nor an escalation phrase
TxtNeinDanke == <<"N","e","i","n"," ","d","a","n","k","e">>
RejectionBodies == {TxtNeinDanke}

\* "Stop, scam!": an opt-out phrase next to an escalation keyword
TxtStopScam == <<"S","t","o","p",","," ","s","c","a","m","!">>

\* "scam scam police": the keyword, its repetition and the threat pattern
TxtScamPolice == <<"s","c","a","m"," ","s","c","a","m"," ","p","o","l","i","c","e">>

\* per body: message.body.trim(), consent.checkDND and the number of triggers
\* of escalation.check on it
BodyInfo ==
    [b \in InboundBodies \cup RejectionBodies \cup {TxtScamPolice, TxtStopScam} |->
        [text |-> Trim(b), dnd |-> CheckDND(Trim(b)),
         triggers |-> EscalationTriggers(Trim(b))]]

\* what JSON.parse of the classifier's answer can yield: an intent of the enum,
\* a value outside it ("junk", also a missing intent field), or null
ClassifyResults == Intents \cup {"junk", "null"}

\* strategy.stage of a parsed pass-B answer; "none" is a missing recommendation
\* strategy.risk_score of a pass-B answer; 0 is falsy and stores nothing
RiskAnswers == {0, 10, 60}

Strategies == [recommended : Stages \cup {"none"}, current : Stages, risk_score : RiskAnswers]

\* the classifier answers and the recommendations explored with concurrent handlers
TriedIntents == {"interest", "confirmation", "not_interested", "other"}
TriedStrategies ==
    {s \in Strategies : s.recommended \in {"none", "QUALIFYING", "WON", "DND"}
                           /\ s.risk_score = 0}

\* splitMessage(response): one to MaxReply fragments
Replies == UNION {[1..n -> ReplyMessages] : n \in 1..MaxReply}

\* conversations.getByPhone(phone).length: the query has LIMIT 50
MsgCount(cv, p) == IF cv[p] > 50 THEN 50 ELSE cv[p]

Set(h, rec) == [handlers EXCEPT ![h] = rec]

\* handleIncomingMessage from its first line to its first suspension.  The
\* slots are interchangeable: a message takes the lowest idle one.
HStart(h, p, body, similar) ==
    /\ handlers[h].pc = "idle"
    /\ \A g \in Handlers : handlers[g].pc = "idle" => ~(g < h)
    /\ similar => conv[p] >= 1
    /\ LET text == BodyInfo[body].text
       IN  IF text = <<>> THEN UNCHANGED vars
           ELSE
           LET cs1 == ContactsAdd(contacts, p)
               ev1 == <<Ev("INBOUND_MESSAGE", p, <<>>)>>
               con == ProcessInbound(cs1, p, BodyInfo[body].dnd)
               n == BodyInfo[body].triggers
               esc == EscalationExecute(con.cs, p, n)
               ack == SafeSendGates(con.cs, settings, p, AckReply, similar)
               hold == SafeSendGates(esc.cs, settings, p, HoldingReply, similar)
               Waiting(kind, m) == [pc |-> "delay", phone |-> p, kind |-> kind,
                                    queue |-> <<m>>, failed |-> FALSE]
           IN  /\ conv' = [conv EXCEPT ![p] = @ + 1]
               /\ turns' = AddTurn(turns, p, "incoming")
               /\ elapsed' = [elapsed EXCEPT ![p] = 0]
               /\ arrived' = arrived + 1
               /\ UNCHANGED <<settings, errorCount, campaign, ops, fin, fout, messageQueue>>
               /\ risk' = IF con.action # "dnd_set" /\ n > 0
                          THEN [risk EXCEPT ![p] = EscalatedRisk(@, n)]
                          ELSE risk
               /\ IF con.action = "dnd_set"
                  THEN /\ contacts' = con.cs
                       /\ events' = ev1 \o con.events \o ack.events
                       /\ handlers' = Set(h, IF ack.go THEN Waiting("ack", AckReply)
                                             ELSE IdleHandler)
                       /\ failedRuns' = IF ack.go THEN RunStart(h) ELSE AfterRun(h, FALSE)
                  ELSE IF n > 0
                  THEN /\ contacts' = esc.cs
                       /\ events' = ev1 \o con.events \o esc.events \o hold.events
                       /\ handlers' = Set(h, IF hold.go THEN Waiting("hold", HoldingReply)
                                             ELSE IdleHandler)
                       /\ failedRuns' = IF hold.go THEN RunStart(h) ELSE AfterRun(h, FALSE)
                  ELSE IF con.cs[p].bot_paused \/ con.cs[p].human_required
                          \/ ~IsAutoReplyEnabled(settings)
                  THEN /\ contacts' = con.cs
                       /\ events' = ev1 \o con.events
                       /\ handlers' = Set(h, IdleHandler)
                       /\ failedRuns' = AfterRun(h, FALSE)
                  ELSE /\ contacts' = con.cs
                       /\ events' = ev1 \o con.events
                       /\ handlers' = Set(h, [pc |-> "classify", phone |-> p,
                                              kind |-> "reply", queue |-> <<>>,
                                              failed |-> FALSE])
                       /\ failedRuns' = RunStart(h)

\* processMessage once classifyIntent has answered, up to the next suspension
HClassified(h, r) ==
    /\ handlers[h].pc = "classify"
    /\ LET p == handlers[h].phone
           ev1 == <<Ev("INTENT_CLASSIFIED", p, <<r>>)>>
       IN  IF r = "null"
           THEN \* intentResult.intent throws; the handler's catch records the error
                /\ errorCount < MaxErrCount
                /\ LET e == RecordError(settings, errorCount)
                   IN  /\ errorCount' = e.count
                       /\ settings' = e.settings
                       /\ events' = ev1 \o e.events
                /\ handlers' = Set(h, IdleHandler)
                /\ failedRuns' = AfterRun(h, FALSE)
                /\ UNCHANGED <<contacts, conv, campaign, arrived, ops, fin, fout, risk, followupVars>>
           ELSE LET currentStage == IF contacts[p].exists THEN contacts[p].pipeline_stage
                                    ELSE "INTRO"
                    nextStage == GetNextStage(currentStage, r)
                    hasCCB == contacts[p].exists /\ contacts[p].ccb
                    regenerate == \/ ~hasCCB
                                  \/ nextStage # currentStage
                                  \/ MsgCount(conv, p) % 3 = 0
                IN  /\ IF nextStage # currentStage
                       THEN /\ contacts' = SetStageRow(contacts, p, nextStage)
                            /\ events' = ev1 \o <<Ev("STAGE_CHANGED", p,
                                                     <<nextStage, "Intent", r>>)>>
                       ELSE /\ contacts' = contacts
                            /\ events' = ev1
                    /\ handlers' = Set(h, [handlers[h] EXCEPT
                                             !.pc = IF regenerate THEN "facts" ELSE "respond"])
                    /\ UNCHANGED <<conv, settings, errorCount, campaign, arrived, ops, failedRuns, fin, fout, risk, followupVars>>

\* generateCCB once extractFacts has answered (ok = FALSE: it returned null)
HFacts(h, ok) ==
    /\ handlers[h].pc = "facts"
    /\ handlers' = Set(h, [handlers[h] EXCEPT !.pc = IF ok THEN "strategy" ELSE "respond"])
    /\ events' = <<>>
    /\ UNCHANGED <<contacts, conv, settings, errorCount, campaign, arrived, ops, failedRuns, fin, fout, risk, followupVars>>

\* generateCCB storing the bundle whether or not pass B answered
HStrategyStoringOnNull(h, ok, s) ==
    /\ handlers[h].pc = "strategy"
    /\ contacts' = SetCCBRow(contacts, handlers[h].phone)
    /\ events' = <<Ev("CCB_GENERATED", handlers[h].phone, <<s.recommended>>)>>
    /\ risk' = risk
    /\ handlers' = Set(h, [handlers[h] EXCEPT !.pc = "respond"])
    /\ UNCHANGED <<conv, settings, errorCount, campaign, arrived, ops, failedRuns, fin, fout, followupVars>>

\* generateCCB once generateStrategy has answered (ok = FALSE: it returned null)
HStrategy(h, ok, s) ==
    /\ handlers[h].pc = "strategy"
    /\ LET p == handlers[h].phone
           cs1 == SetCCBRow(contacts, p)
           move == s.recommended # "none" /\ s.recommended # s.current
       IN  IF ~ok
           THEN /\ contacts' = contacts
                /\ events' = <<>>
           ELSE /\ contacts' = IF move THEN SetStageRow(cs1, p, s.recommended) ELSE cs1
                /\ events' = (IF move THEN <<Ev("STAGE_CHANGED", p,
                                                <<s.recommended, "Strategy", "reason">>)>>
                              ELSE <<>>)
                             \o <<Ev("CCB_GENERATED", p, <<s.recommended>>)>>
    /\ risk' = IF ok /\ s.risk_score # 0 /\ contacts[handlers[h].phone].exists
               THEN [risk EXCEPT ![handlers[h].phone] = s.risk_score]
               ELSE risk
    /\ handlers' = Set(h, [handlers[h] EXCEPT !.pc = "respond"])
    /\ UNCHANGED <<conv, settings, errorCount, campaign, arrived, ops, failedRuns, fin, fout, followupVars>>

\* the reply loop from the head of queue on: the next fragment that passes the
\* gates starts its sleep; when none is left the handling ends with recordSuccess
ReplyLoop(h, queue, similar) ==
    LET p == handlers[h].phone
        loop == SendLoop(contacts, settings, p, queue, similar)
    IN  /\ events' = loop.events
        /\ IF loop.queue = <<>>
           THEN /\ errorCount' = RecordSuccess(errorCount)
                /\ handlers' = Set(h, IdleHandler)
                /\ failedRuns' = AfterRun(h, handlers[h].failed)
           ELSE /\ errorCount' = errorCount
                /\ handlers' = Set(h, [handlers[h] EXCEPT !.pc = "delay",
                                                          !.queue = loop.queue])
                /\ failedRuns' = failedRuns
        /\ UNCHANGED <<contacts, conv, settings, campaign, arrived, ops, fin, fout, risk, followupVars>>

\* handleIncomingMessage once ai.generateResponse has answered
\* (response = <<>>: it returned null)
HResponse(h, response, similar) ==
    /\ handlers[h].pc = "respond"
    /\ similar => conv[handlers[h].phone] >= 2
    /\ ReplyLoop(h, response, similar)

\* safeSend: the sleep is over, client.sendMessage is called
HDelayDone(h) ==
    /\ handlers[h].pc = "delay"
    /\ handlers' = Set(h, [handlers[h] EXCEPT !.pc = "sending"])
    /\ events' = <<>>
    /\ UNCHANGED <<contacts, conv, settings, errorCount, campaign, arrived, ops, failedRuns, fin, fout, risk, followupVars>>

\* safeSend: client.sendMessage has resolved (ok) or rejected
HSendResult(h, ok) ==
    /\ handlers[h].pc = "sending"
    /\ LET p == handlers[h].phone
       IN  IF ok
           THEN /\ conv' = [conv EXCEPT ![p] = @ + 1]
                /\ turns' = AddTurn(turns, p, "outgoing")
                /\ elapsed' = [elapsed EXCEPT ![p] = 0]
                /\ events' = <<Ev("OUTBOUND_MESSAGE", p, <<>>)>>
                /\ failedRuns' = IF failedRuns < 0 THEN failedRuns ELSE 0
                /\ UNCHANGED <<settings, errorCount>>
           ELSE /\ errorCount < MaxErrCount
                /\ LET e == RecordError(settings, errorCount)
                   IN  /\ errorCount' = e.count
                       /\ settings' = e.settings
                       /\ events' = e.events \o <<Ev("SEND_ERROR", p, <<>>)>>
                /\ UNCHANGED <<conv, failedRuns, turns, elapsed>>
    /\ handlers' = Set(h, [handlers[h] EXCEPT !.pc = "sent", !.failed = ~ok,
                                              !.queue = Tail(@)])
    /\ UNCHANGED <<contacts, campaign, arrived, ops, fin, fout, risk, messageQueue>>

\* handleIncomingMessage resumes after one safeSend has returned
HContinue(h, similar) ==
    /\ handlers[h].pc = "sent"
    /\ similar => conv[handlers[h].phone] >= 2
    /\ IF handlers[h].kind = "reply"
       THEN ReplyLoop(h, handlers[h].queue, similar)
       ELSE \* the opt-out and the escalation branch return without recordSuccess
            /\ handlers' = Set(h, IdleHandler)
            /\ events' = <<>>
            /\ failedRuns' = AfterRun(h, handlers[h].failed)
            /\ UNCHANGED <<contacts, conv, settings, errorCount, campaign, arrived, ops, fin, fout, risk, followupVars>>

-----------------------------------------------------------------------------
(* Outreach campaign *)

\* stopped: the phone of the result row {status: 'stopped', reason: 'kill_switch'}
\* of the latest executeCampaign, "none" when it has pushed no such row
IdleCampaign == [pc |-> "idle", targets |-> <<>>, i |-> 0, stopped |-> "none"]

\* phone lists of a campaign request
TargetLists == {<<"p1", "p2">>, <<"p2", "p1">>}

\* executeCampaign reading the toggle only before its first target
RECURSIVE CampaignLoopToggleAtStart(_, _, _, _, _)
CampaignLoopToggleAtStart(cs, st, cv, targets, i) ==
    IF i > Len(targets) THEN IdleCampaign
    ELSE LET t == targets[i]
         IN  IF cs[t].exists /\ cs[t].consent_status = "DND"
             THEN CampaignLoopToggleAtStart(cs, st, cv, targets, i + 1)
             ELSE IF cs[t].exists /\ cs[t].consent_status \in {"SOFT_OPTIN_SENT", "OPTED_IN"}
             THEN CampaignLoopToggleAtStart(cs, st, cv, targets, i + 1)
             ELSE IF cv[t] > 0
             THEN CampaignLoopToggleAtStart(cs, st, cv, targets, i + 1)
             ELSE IF i = 1 /\ ~IsGlobalSendEnabled(st) THEN [IdleCampaign EXCEPT !.stopped = t]
             ELSE IF i > 1 THEN [pc |-> "delay", targets |-> targets, i |-> i, stopped |-> "none"]
             ELSE [pc |-> "sending", targets |-> targets, i |-> i, stopped |-> "none"]

\* executeCampaign from the top of iteration i (counted from 1) up to the next
\* suspension: skipped targets are passed over, a disabled toggle ends the task
RECURSIVE CampaignLoop(_, _, _, _, _)
CampaignLoop(cs, st, cv, targets, i) ==
    IF i > Len(targets) THEN IdleCampaign
    ELSE LET t == targets[i]
         IN  IF cs[t].exists /\ cs[t].consent_status = "DND"
             THEN CampaignLoop(cs, st, cv, targets, i + 1)
             ELSE IF cs[t].exists /\ cs[t].consent_status \in {"SOFT_OPTIN_SENT", "OPTED_IN"}
             THEN CampaignLoop(cs, st, cv, targets, i + 1)
             ELSE IF cv[t] > 0
             THEN CampaignLoop(cs, st, cv, targets, i + 1)
             ELSE IF ~IsGlobalSendEnabled(st) THEN [IdleCampaign EXCEPT !.stopped = t]
             ELSE IF i > 1 THEN [pc |-> "delay", targets |-> targets, i |-> i, stopped |-> "none"]
             ELSE [pc |-> "sending", targets |-> targets, i |-> i, stopped |-> "none"]

RECURSIVE AddAll(_, _)
AddAll(cs, targets) ==
    IF targets = <<>> THEN cs ELSE AddAll(ContactsAdd(cs, Head(targets)), Tail(targets))

\* POST /api/outreach/start: prepareCampaign waits for the opener variations
CampaignStart(targets) ==
    /\ campaign.pc = "idle"
    /\ campaign' = [pc |-> "prepare", targets |-> targets, i |-> 0, stopped |-> "none"]
    /\ events' = <<>>
    /\ UNCHANGED <<contacts, conv, settings, errorCount, handlers, arrived, ops, failedRuns, fin, fout, risk, followupVars>>

\* prepareCampaign adds the contacts; executeCampaign runs to its first suspension
CampaignPrepared ==
    /\ campaign.pc = "prepare"
    /\ contacts' = AddAll(contacts, campaign.targets)
    /\ campaign' = CampaignLoop(contacts', settings, conv, campaign.targets, 1)
    /\ events' = <<>>
    /\ UNCHANGED <<conv, settings, errorCount, handlers, arrived, ops, failedRuns, fin, fout, risk, followupVars>>

\* the pacing delay is over: whatsappClient.sendMessage is called
CampaignDelayDone ==
    /\ campaign.pc = "delay"
    /\ campaign' = [campaign EXCEPT !.pc = "sending"]
    /\ events' = <<>>
    /\ UNCHANGED <<contacts, conv, settings, errorCount, handlers, arrived, ops, failedRuns, fin, fout, risk, followupVars>>

\* whatsappClient.sendMessage has resolved (ok) or rejected; next iteration
CampaignSendResult(ok) ==
    /\ campaign.pc = "sending"
    /\ LET t == campaign.targets[campaign.i]
       IN  IF ok
           THEN /\ conv' = [conv EXCEPT ![t] = @ + 1]
                /\ turns' = AddTurn(turns, t, "outgoing")
                /\ elapsed' = [elapsed EXCEPT ![t] = 0]
                /\ contacts' = SetConsentRow(contacts, t, "SOFT_OPTIN_SENT")
                /\ events' = <<Ev("CONSENT_CHANGED", t, <<"SOFT_OPTIN_SENT">>),
                               Ev("OUTREACH_SENT", t, <<>>)>>
           ELSE /\ conv' = conv
                /\ UNCHANGED <<turns, elapsed>>
                /\ contacts' = contacts
                /\ events' = <<Ev("OUTREACH_ERROR", t, <<>>)>>
    /\ campaign' = CampaignLoop(contacts', settings, conv', campaign.targets, campaign.i + 1)
    /\ UNCHANGED <<settings, errorCount, handlers, arrived, ops, failedRuns, fin, fout, risk, messageQueue>>

-----------------------------------------------------------------------------
(* Control plane *)

\* POST /api/kill-switch/stop: killSwitch.emergencyStop
EmergencyStop ==
    /\ ops < MaxOps
    /\ ops' = ops + 1
    /\ settings' = [settings EXCEPT !.global_send_enabled = "false"]
    /\ events' = <<Ev("EMERGENCY_STOP", "SYSTEM", <<>>)>>
    /\ UNCHANGED <<contacts, conv, errorCount, handlers, campaign, arrived, failedRuns, fin, fout, risk, followupVars>>

\* POST /api/kill-switch/resume: killSwitch.resume
Resume ==
    /\ ops < MaxOps
    /\ ops' = ops + 1
    /\ settings' = [settings EXCEPT !.global_send_enabled = "true"]
    /\ errorCount' = 0
    /\ events' = <<>>
    /\ failedRuns' = IF failedRuns < 0 THEN failedRuns ELSE 0
    /\ UNCHANGED <<contacts, conv, handlers, campaign, arrived, fin, fout, risk, followupVars>>

SettingValues == {"true", "false"}

\* POST /api/settings: settings.set(key, value)
SettingsSet(key, value) ==
    /\ ops < MaxOps
    /\ ops' = ops + 1
    /\ settings' = [settings EXCEPT ![key] = value]
    /\ events' = <<>>
    /\ failedRuns' = IF key = "global_send_enabled" /\ value = "true" /\ failedRuns > 0
                    THEN 0 ELSE failedRuns
    /\ UNCHANGED <<contacts, conv, errorCount, handlers, campaign, arrived, fin, fout, risk, followupVars>>

\* POST /api/contacts/:phone/takeover
Takeover(p) ==
    /\ ops < MaxOps
    /\ ops' = ops + 1
    /\ contacts' = SetHumanRequiredRow(SetPausedRow(contacts, p, TRUE), p, TRUE)
    /\ events' = <<Ev("BOT_PAUSED", p, <<>>), Ev("HUMAN_TAKEOVER", p, <<>>)>>
    /\ UNCHANGED <<conv, settings, errorCount, handlers, campaign, arrived, failedRuns, fin, fout, risk, followupVars>>

\* POST /api/contacts/:phone/resume-bot
ResumeBot(p) ==
    /\ ops < MaxOps
    /\ ops' = ops + 1
    /\ contacts' = SetHumanRequiredRow(SetPausedRow(contacts, p, FALSE), p, FALSE)
    /\ events' = <<Ev("BOT_RESUMED", p, <<>>)>>
    /\ UNCHANGED <<conv, settings, errorCount, handlers, campaign, arrived, failedRuns, fin, fout, risk, followupVars>>

\* POST /api/contacts/:phone/dnd
ApiSetDND(p) ==
    /\ ops < MaxOps
    /\ ops' = ops + 1
    /\ contacts' = SetDNDRow(contacts, p)
    /\ events' = <<Ev("DND_SET", p, <<>>)>>
    /\ UNCHANGED <<conv, settings, errorCount, handlers, campaign, arrived, failedRuns, fin, fout, risk, followupVars>>

-----------------------------------------------------------------------------
(* The system *)

NoInput == <<"none", "none">>

Init ==
    /\ contacts = [p \in Phones |-> NoRow]
    /\ conv = [p \in Phones |-> 0]
    /\ settings = [global_send_enabled |-> "true", auto_reply_enabled |-> "true"]
    /\ errorCount = 0
    /\ events = <<>>
    /\ handlers = [h \in Handlers |-> IdleHandler]
    /\ campaign = IdleCampaign
    /\ arrived = 0
    /\ ops = 0
    /\ failedRuns = 0
    /\ fin = NoInput
    /\ fout = "none"
    /\ risk = [p \in Phones |-> 0]
    /\ turns = [p \in Phones |-> <<>>]
    /\ elapsed = [p \in Phones |-> 0]
    /\ messageQueue = <<>>

\* inbound handling with the given inputs
Inbound(budget, phones, bodies, answers, facts, strategies, responses, flags) ==
    \/ \E h \in Handlers, p \in phones, body \in bodies, similar \in flags :
          arrived < budget /\ HStart(h, p, body, similar)
    \/ \E h \in Handlers, r \in answers : HClassified(h, r)
    \/ \E h \in Handlers, ok \in facts : HFacts(h, ok)
    \/ \E h \in Handlers, ok \in BOOLEAN, s \in strategies : HStrategy(h, ok, s)
    \/ \E h \in Handlers, response \in responses, similar \in flags :
          HResponse(h, response, similar)
    \/ \E h \in Handlers : HDelayDone(h)
    \/ \E h \in Handlers, ok \in BOOLEAN : HSendResult(h, ok)
    \/ \E h \in Handlers, similar \in flags : HContinue(h, similar)

\* Spec: concurrent inbound handling for two contacts, and the operator's
\* per-contact requests
Next ==
    \/ Inbound(MaxInbound, Phones, InboundBodies, TriedIntents, BOOLEAN, TriedStrategies,
               Replies \cup {<<>>}, BOOLEAN)
    \/ \E p \in Phones : Takeover(p)
    \/ \E p \in Phones : ResumeBot(p)
    \/ \E p \in Phones : ApiSetDND(p)

Spec == Init /\ [][Next]_vars

\* SpecBreaker: the consecutive-error breaker under concurrent handlers of one
\* contact, a classifier that may answer null, a transport that may fail, and
\* the operator's kill-switch requests
NextBreaker ==
    \/ Inbound(MaxSerial, {"p1"}, {TxtJa}, {"other", "null"}, BOOLEAN,
               {s \in Strategies : s.recommended = "none" /\ s.current = "INTRO"
                                      /\ s.risk_score = 0},
               Replies \cup {<<>>}, {FALSE})
    \/ EmergencyStop
    \/ Resume
    \/ \E value \in SettingValues : SettingsSet("global_send_enabled", value)

SpecBreaker == Init /\ [][NextBreaker]_vars

\* SpecOutreach: campaigns over both contacts while the operator acts and
\* contacts answer with an opt-out or with a text that escalates
NextOutreach ==
    \/ \E targets \in TargetLists : CampaignStart(targets)
    \/ CampaignPrepared
    \/ CampaignDelayDone
    \/ \E ok \in BOOLEAN : CampaignSendResult(ok)
    \/ \E h \in Handlers, p \in Phones, body \in {TxtStop, TxtScam} :
          arrived < MaxInbound /\ HStart(h, p, body, FALSE)
    \/ EmergencyStop
    \/ Resume
    \/ \E p \in Phones : Takeover(p)
    \/ \E p \in Phones : ResumeBot(p)
    \/ \E p \in Phones : ApiSetDND(p)

SpecOutreach == Init /\ [][NextOutreach]_vars

\* SpecOutreachFair: SpecOutreach in which the opener generation, the pacing
\* timer and the transport call of a campaign always come back
SpecOutreachFair ==
    /\ SpecOutreach
    /\ WF_vars(CampaignPrepared)
    /\ WF_vars(CampaignDelayDone)
    /\ WF_vars(\E ok \in BOOLEAN : CampaignSendResult(ok))

\* SpecRisk: inbound handling of one contact whose texts may escalate and
\* whose pass-B answers carry a risk_score
NextRisk ==
    Inbound(MaxInbound, {"p1"}, {TxtJa, TxtScam, TxtScamPolice}, {"interest", "other"},
            BOOLEAN,
            {s \in Strategies : s.recommended = "none" /\ s.current = "INTRO"},
            Replies \cup {<<>>}, {FALSE})

SpecRisk == Init /\ [][NextRisk]_vars

\* SpecRejection: one contact who answers every message with a refusal, and a
\* classifier that may return any intent, a value outside the enum, or null
NextRejection ==
    Inbound(MaxInbound, {"p1"}, RejectionBodies, ClassifyResults, BOOLEAN,
            {s \in Strategies : s.recommended = "none" /\ s.current = "INTRO"
                                   /\ s.risk_score = 0},
            Replies \cup {<<>>}, {FALSE})

SpecRejection == Init /\ [][NextRejection]_vars

\* SpecInbound: one inbound message for a contact in any row the table can hold
ContactRows ==
    [exists : {TRUE}, consent_status : Consents, pipeline_stage : Stages,
     bot_paused : BOOLEAN, human_required : BOOLEAN, ccb : BOOLEAN]

InitInbound ==
    /\ contacts \in {[p \in Phones |-> IF p = "p1" THEN r ELSE NoRow] : r \in ContactRows}
    /\ conv = [p \in Phones |-> IF p = "p1" THEN 1 ELSE 0]
    /\ settings = [global_send_enabled |-> "true", auto_reply_enabled |-> "true"]
    /\ errorCount = 0
    /\ events = <<>>
    /\ handlers = [h \in Handlers |-> IdleHandler]
    /\ campaign = IdleCampaign
    /\ arrived = 0
    /\ ops = 0
    /\ failedRuns = 0
    /\ fin = NoInput
    /\ fout = "none"
    /\ risk = [p \in Phones |-> 0]
    /\ turns = [p \in Phones |-> IF p = "p1" THEN <<"outgoing">> ELSE <<>>]
    /\ elapsed = [p \in Phones |-> 0]
    /\ messageQueue = <<>>

NextInbound ==
    \E h \in Handlers, body \in InboundBodies \cup {TxtStopScam}, similar \in BOOLEAN :
        arrived = 0 /\ HStart(h, "p1", body, similar)

SpecInbound == InitInbound /\ [][NextInbound]_vars

\* SpecStage: getNextStage applied to every stage and every classifier answer
StageInputs == Stages \X ClassifyResults

InitStage ==
    /\ contacts = [p \in Phones |-> NoRow]
    /\ conv = [p \in Phones |-> 0]
    /\ settings = [global_send_enabled |-> "true", auto_reply_enabled |-> "true"]
    /\ errorCount = 0
    /\ events = <<>>
    /\ handlers = [h \in Handlers |-> IdleHandler]
    /\ campaign = IdleCampaign
    /\ arrived = 0
    /\ ops = 0
    /\ failedRuns = 0
    /\ fin \in StageInputs
    /\ fout = "none"
    /\ risk = [p \in Phones |-> 0]
    /\ turns = [p \in Phones |-> <<>>]
    /\ elapsed = [p \in Phones |-> 0]
    /\ messageQueue = <<>>

ApplyGetNextStage ==
    /\ fout = "none"
    /\ fout' = GetNextStage(fin[1], fin[2])
    /\ UNCHANGED <<contacts, conv, settings, errorCount, events, handlers, campaign,
                   arrived, ops, failedRuns, fin, risk, followupVars>>

SpecStage == InitStage /\ [][ApplyGetNextStage]_vars

-----------------------------------------------------------------------------
(* validator.validate on its own.                                          *)

\* the store as construction leaves it, with nothing in flight
AtRest ==
    /\ contacts = [p \in Phones |-> NoRow]
    /\ conv = [p \in Phones |-> 0]
    /\ settings = [global_send_enabled |-> "true", auto_reply_enabled |-> "true"]
    /\ errorCount = 0
    /\ events = <<>>
    /\ handlers = [h \in Handlers |-> IdleHandler]
    /\ campaign = IdleCampaign
    /\ arrived = 0
    /\ ops = 0
    /\ failedRuns = 0
    /\ risk = [p \in Phones |-> 0]
    /\ turns = [p \in Phones |-> <<>>]
    /\ elapsed = [p \in Phones |-> 0]
    /\ messageQueue = <<>>

RestUnchanged ==
    UNCHANGED <<contacts, conv, settings, errorCount, events, handlers, campaign,
                arrived, ops, failedRuns, risk, followupVars>>

TxtGuaranteedUpper == <<"G","U","A","R","A","N","T","E","E","D"," ","R","e","t","u","r","n","!">>
TxtNoRisk == <<"N","o"," ","R","i","s","k">>
TxtRiskFree == <<"r","i","s","k","-","f","r","e","e">>
TxtHallo == <<"H","a","l","l","o">>
TxtWww == <<"W","W","W",".","a","b">>
TxtHttp == <<"h","t","t","p",":","/","/","a">>
TxtDotOrg == <<"a",".","O","r","g">>
TxtHttpNoSlashes == <<"h","t","t","p",":","a">>
MessageTexts ==
    {TxtGuaranteedUpper, TxtNoRisk, TxtRiskFree, TxtHallo, TxtWww, TxtHttp, TxtDotOrg,
     TxtHttpNoSlashes}

\* message lengths: the text alone, or the text followed by harmless filler
MessageLengths == {10, 11, MaxCharsPerMessage, MaxCharsPerMessage + 1}

\* values of the max_chars_per_message setting: absent, the default, a custom
\* limit, a value that is not a number
MaxCharsSettings == {<<>>, DefaultMaxChars, <<"1","0">>, <<"a","b","c">>}

LinkPolicies == {"", "no_links_until_engagement", "always_allowed"}

ValidateInputs ==
    {x \in [text : MessageTexts, len : MessageLengths \cup {7, 9, 18},
            pattern : BOOLEAN, cta : BOOLEAN, identity : BOOLEAN,
            max : MaxCharsSettings, policy : LinkPolicies,
            stage : Stages \cup {"missing"}] :
        x.len \in MessageLengths \/ x.len = Len(x.text)}

InitValidate ==
    /\ AtRest
    /\ fin \in {x \in ValidateInputs : x.len >= Len(x.text)}
    /\ fout = [done |-> FALSE]

ApplyValidate ==
    /\ ~fout.done
    /\ LET m == Msg(fin.len, HasForbiddenClaim(fin.text), fin.pattern, HasLinks(fin.text),
                    fin.identity)
           r == ValidateResult(m, fin.cta, fin.max, fin.policy, fin.stage)
       IN  fout' = [done |-> TRUE, valid |-> r.valid, violations |-> r.violations,
                    hasCTA |-> r.hasCTA]
    /\ UNCHANGED fin
    /\ RestUnchanged

SpecValidate == InitValidate /\ [][ApplyValidate]_vars

-----------------------------------------------------------------------------
(* Fingerprint detector.  A similarity is the fraction num / den, kept as  *)
(* the pair, and a threshold is a pair <<numerator, denominator>>.         *)

\* the characters that text.replace(/[^a-z0-9 äöüß]/g, '') keeps
ShingleChars ==
    {LowerChars[k] : k \in 1..Len(LowerChars)} \cup {"ß", " "}
    \cup {"0","1","2","3","4","5","6","7","8","9"}

KeptByShingles(c) == c \in ShingleChars

\* getShingles(text, 3): the substrings of length 3 of the cleaned text
GetShingles(text) ==
    LET clean == Trim(SelectSeq(ToLowerCase(text), KeptByShingles))
    IN  {SubSeq(clean, i, i + 2) : i \in 1..(Len(clean) - 2)}

JaccardEmptyIsOne(setA, setB) ==
    LET intersection == setA \cap setB
        union == setA \cup setB
    IN  IF Cardinality(union) = 0 THEN [num |-> 1, den |-> 1]
        ELSE [num |-> Cardinality(intersection), den |-> Cardinality(union)]

JaccardSimilarity(setA, setB) ==
    LET intersection == setA \cap setB
        union == setA \cup setB
    IN  IF Cardinality(union) = 0 THEN [num |-> 0, den |-> 1]
        ELSE [num |-> Cardinality(intersection), den |-> Cardinality(union)]

\* similarity > threshold
Exceeds(similarity, threshold) ==
    similarity.num * threshold[2] > threshold[1] * similarity.den

IsOutgoing(row) == row.direction = "outgoing"

\* the loop of isTooSimilar over recentOut: the first message above the threshold
RECURSIVE FirstSimilar(_, _, _)
FirstSimilar(msgShingles, recentOut, threshold) ==
    IF recentOut = <<>> THEN [similar |-> FALSE]
    ELSE LET prev == Head(recentOut)
             similarity == JaccardSimilarity(msgShingles, GetShingles(prev.message))
         IN  IF Exceeds(similarity, threshold)
             THEN [similar |-> TRUE, similarity |-> similarity,
                   matchedMessage |-> prev.message]
             ELSE FirstSimilar(msgShingles, Tail(recentOut), threshold)

\* isTooSimilar(message, phone, threshold); rows is what
\* conversations.getByPhone(phone, 50) returns, phone "none" is the null default
IsTooSimilar(message, phone, rows, threshold) ==
    LET recentOut == IF phone # "none" THEN SelectSeq(rows, IsOutgoing) ELSE <<>>
    IN  IF recentOut = <<>> THEN [similar |-> FALSE]
        ELSE FirstSimilar(GetShingles(message), recentOut, threshold)

TxtOk == <<"O","k">>
TxtHalloUpper == <<"H","A","L","L","O","!">>
TxtHeyDu == <<"H","e","y"," ","d","u">>
TxtMarks == <<"!","?","!">>
FingerprintTexts == {TxtOk, TxtHallo, TxtHalloUpper, TxtHeyDu, TxtMarks}

MaxRows == 2
ConversationRows == [direction : {"incoming", "outgoing"}, message : FingerprintTexts]
Histories == UNION {[1..n -> ConversationRows] : n \in 0..MaxRows}

\* the default threshold 0.7, and others below 1
Thresholds == {<<0, 1>>, <<7, 10>>, <<99, 100>>}

ShinglePool == GetShingles(TxtHallo) \cup GetShingles(TxtHeyDu)

FingerprintInputs ==
    [kind : {"isTooSimilar"}, message : FingerprintTexts, phone : {"p1", "none"},
     rows : Histories, threshold : Thresholds]
    \cup [kind : {"jaccard"}, setA : SUBSET ShinglePool, setB : SUBSET ShinglePool]

InitFingerprint ==
    /\ AtRest
    /\ fin \in FingerprintInputs
    /\ fout = [done |-> FALSE]

ApplyIsTooSimilar ==
    /\ ~fout.done
    /\ fin.kind = "isTooSimilar"
    /\ fout' = [done |-> TRUE,
                result |-> IsTooSimilar(fin.message, fin.phone, fin.rows, fin.threshold)]
    /\ UNCHANGED fin
    /\ RestUnchanged

ApplyJaccard ==
    /\ ~fout.done
    /\ fin.kind = "jaccard"
    /\ fout' = [done |-> TRUE, result |-> JaccardSimilarity(fin.setA, fin.setB)]
    /\ UNCHANGED fin
    /\ RestUnchanged

NextFingerprint == ApplyIsTooSimilar \/ ApplyJaccard

SpecFingerprint == InitFingerprint /\ [][NextFingerprint]_vars

-----------------------------------------------------------------------------
(* killSwitch.canSend on its own: any row of the contact (or none), the    *)
(* toggle in any stored value, the breaker at any count.                   *)

InitCanSend ==
    /\ contacts \in {[p \in Phones |-> IF p = "p1" THEN r ELSE NoRow] :
                        r \in ContactRows \cup {NoRow}}
    /\ settings \in {[global_send_enabled |-> v, auto_reply_enabled |-> "true"] :
                        v \in SettingValues \cup {"null"}}
    /\ errorCount \in 0..MaxErrCount
    /\ conv = [p \in Phones |-> 0]
    /\ events = <<>>
    /\ handlers = [h \in Handlers |-> IdleHandler]
    /\ campaign = IdleCampaign
    /\ arrived = 0
    /\ ops = 0
    /\ failedRuns = 0
    /\ risk = [p \in Phones |-> 0]
    /\ turns = [p \in Phones |-> <<>>]
    /\ elapsed = [p \in Phones |-> 0]
    /\ messageQueue = <<>>
    /\ fin = "p1"
    /\ fout = [done |-> FALSE]

ApplyCanSend ==
    /\ ~fout.done
    /\ fout' = [done |-> TRUE, result |-> CanSend(contacts, settings, fin)]
    /\ UNCHANGED fin
    /\ RestUnchanged

SpecCanSend == InitCanSend /\ [][ApplyCanSend]_vars

-----------------------------------------------------------------------------
(* Follow-up scheduler.  Time is the number of minutes since the contact's *)
(* latest conversation row, at the values where check changes its answer.  *)

MaxTurns == 5
MaxSweeps == 2

\* conversations.getRecent(phone, count): the latest count rows, oldest first
LastRows(ts, count) ==
    IF Len(ts) <= count THEN ts ELSE SubSeq(ts, Len(ts) - count + 1, Len(ts))

\* the outgoing rows among recent, answered or not
UnansweredCountAllRows(recent) == Len(SelectSeq(recent, LAMBDA d : d = "outgoing"))

\* consecutive unanswered outgoing messages since the last incoming one
RECURSIVE UnansweredCount(_)
UnansweredCount(recent) ==
    IF recent = <<>> \/ recent[Len(recent)] # "outgoing" THEN 0
    ELSE 1 + UnansweredCount(SubSeq(recent, 1, Len(recent) - 1))

NoFollowUp == [needsFollowUp |-> FALSE, messageType |-> "none"]

CheckCountingAllOutgoing(recent, minutesAgo) ==
    LET count == Len(SelectSeq(recent, LAMBDA d : d = "outgoing"))
    IN  IF count >= 1 /\ minutesAgo >= 8
        THEN [needsFollowUp |-> TRUE, messageType |-> "nudge_1"]
        ELSE NoFollowUp

\* check without the 8-minute floor of the nudge sequence
CheckNudgingAtOnce(recent, minutesAgo) ==
    LET unansweredCount == UnansweredCount(recent)
    IN  IF recent = <<>> THEN NoFollowUp
        ELSE IF recent[Len(recent)] = "incoming" THEN NoFollowUp
        ELSE IF unansweredCount \in {1, 2, 3} /\ minutesAgo < 4 * 60
        THEN [needsFollowUp |-> TRUE,
              messageType |-> IF unansweredCount = 1 THEN "nudge_1"
                              ELSE IF unansweredCount = 2 THEN "nudge_2" ELSE "nudge_3"]
        ELSE IF unansweredCount = 4 /\ minutesAgo >= 4 * 60 /\ minutesAgo < 48 * 60
        THEN [needsFollowUp |-> TRUE, messageType |-> "reminder_4h"]
        ELSE NoFollowUp

\* check sending the reminder for every run of four or more
CheckWithoutCap(recent, minutesAgo) ==
    LET unansweredCount == UnansweredCount(recent)
    IN  IF recent = <<>> THEN NoFollowUp
        ELSE IF recent[Len(recent)] = "incoming" THEN NoFollowUp
        ELSE IF unansweredCount \in {1, 2, 3} /\ minutesAgo >= 8 /\ minutesAgo < 4 * 60
        THEN [needsFollowUp |-> TRUE,
              messageType |-> IF unansweredCount = 1 THEN "nudge_1"
                              ELSE IF unansweredCount = 2 THEN "nudge_2" ELSE "nudge_3"]
        ELSE IF unansweredCount >= 4 /\ minutesAgo >= 4 * 60 /\ minutesAgo < 48 * 60
        THEN [needsFollowUp |-> TRUE, messageType |-> "reminder_4h"]
        ELSE NoFollowUp

\* followup.check on the rows getRecent returned and the age of the last one
Check(recent, minutesAgo) ==
    LET unansweredCount == UnansweredCount(recent)
    IN  IF recent = <<>> THEN NoFollowUp
        ELSE IF recent[Len(recent)] = "incoming" THEN NoFollowUp
        ELSE IF unansweredCount <= 3 /\ minutesAgo >= 8 /\ minutesAgo < 4 * 60
                /\ unansweredCount \in {1, 2, 3}
        THEN [needsFollowUp |-> TRUE,
              messageType |-> IF unansweredCount = 1 THEN "nudge_1"
                              ELSE IF unansweredCount = 2 THEN "nudge_2" ELSE "nudge_3"]
        ELSE IF unansweredCount >= 4 /\ minutesAgo >= 4 * 60 /\ minutesAgo < 48 * 60
                /\ unansweredCount = 4
        THEN [needsFollowUp |-> TRUE, messageType |-> "reminder_4h"]
        ELSE NoFollowUp

\* checkAll skipping only opted-out contacts and terminal stages
CheckAllIgnoringPause(cs, ts, el, p) ==
    IF \/ ~cs[p].exists
       \/ cs[p].consent_status = "DND"
       \/ cs[p].pipeline_stage \in {"WON", "LOST", "DND"}
    THEN NoFollowUp
    ELSE Check(LastRows(ts[p], 10), el[p])

\* followup.checkAll: the result of check for p, or none when p is skipped
CheckAll(cs, ts, el, p) ==
    IF \/ ~cs[p].exists
       \/ cs[p].consent_status = "DND"
       \/ cs[p].bot_paused \/ cs[p].human_required
       \/ cs[p].pipeline_stage \in {"WON", "LOST", "DND"}
    THEN NoFollowUp
    ELSE Check(LastRows(ts[p], 10), el[p])

\* contacts.getAll: the order in which the sweep visits the contacts
PhoneOrder == <<"p1", "p2">>

\* POST /api/followups/queue-all: followup.queueAll
QueueAll ==
    /\ ops < MaxSweeps
    /\ ops' = ops + 1
    /\ LET eligible == SelectSeq(PhoneOrder,
                           LAMBDA p : CheckAll(contacts, turns, elapsed, p).needsFollowUp)
           Row(p) == [phone |-> p,
                      messageType |-> CheckAll(contacts, turns, elapsed, p).messageType]
       IN  /\ messageQueue' = messageQueue \o [k \in 1..Len(eligible) |-> Row(eligible[k])]
           /\ events' = [k \in 1..Len(eligible) |->
                            Ev("FOLLOWUP_QUEUED", eligible[k], <<Row(eligible[k]).messageType>>)]
    /\ UNCHANGED <<contacts, conv, settings, errorCount, handlers, campaign, arrived,
                   failedRuns, fin, fout, risk, turns, elapsed>>

\* minutes at which check changes its answer: 8 min, 4 h, 48 h
ElapsedSteps == {0, 8, 4 * 60, 48 * 60}

\* time passes without a new row for p
Tick(p) ==
    /\ turns[p] # <<>>
    /\ \E m \in ElapsedSteps :
          /\ m > elapsed[p]
          /\ \A m2 \in ElapsedSteps : m2 > elapsed[p] => m2 >= m
          /\ elapsed' = [elapsed EXCEPT ![p] = m]
    /\ events' = <<>>
    /\ UNCHANGED <<contacts, conv, settings, errorCount, handlers, campaign, arrived, ops,
                   failedRuns, fin, fout, risk, turns, messageQueue>>

\* POST /api/messages/send: sendHumanLike has resolved and the row is stored
MessageSend(p) ==
    /\ Len(turns[p]) <= MaxTurns
    /\ conv' = [conv EXCEPT ![p] = @ + 1]
    /\ turns' = AddTurn(turns, p, "outgoing")
    /\ elapsed' = [elapsed EXCEPT ![p] = 0]
    /\ events' = <<>>
    /\ UNCHANGED <<contacts, settings, errorCount, handlers, campaign, arrived, ops, failedRuns, fin, fout, risk, messageQueue>>

\* rows of a contact the sweep may meet
FollowupRows ==
    {NewRow, [NewRow EXCEPT !.bot_paused = TRUE],
     [NewRow EXCEPT !.consent_status = "OPTED_IN", !.pipeline_stage = "QUALIFYING"],
     [NewRow EXCEPT !.pipeline_stage = "LOST"],
     [NewRow EXCEPT !.pipeline_stage = "WON"],
     [NewRow EXCEPT !.pipeline_stage = "DND"],
     [NewRow EXCEPT !.human_required = TRUE],
     [NewRow EXCEPT !.consent_status = "DND"],
     [NewRow EXCEPT !.consent_status = "DND", !.bot_paused = TRUE]}

TurnHistories == UNION {[1..n -> {"incoming", "outgoing"}] : n \in 0..MaxTurns}

InitFollowup ==
    /\ contacts \in {[p \in Phones |-> IF p = "p1" THEN r ELSE NewRow] : r \in FollowupRows}
    /\ turns \in {[p \in Phones |-> IF p = "p1" THEN t ELSE t2] :
                     t \in TurnHistories, t2 \in {<<>>, <<"outgoing">>}}
    /\ conv = [p \in Phones |-> Len(turns[p])]
    /\ elapsed \in {[p \in Phones |-> IF p = "p1" /\ turns[p] # <<>> THEN m ELSE 0] :
                       m \in ElapsedSteps}
    /\ messageQueue = <<>>
    /\ settings = [global_send_enabled |-> "true", auto_reply_enabled |-> "true"]
    /\ errorCount = 0
    /\ events = <<>>
    /\ handlers = [h \in Handlers |-> IdleHandler]
    /\ campaign = IdleCampaign
    /\ arrived = 0
    /\ ops = 0
    /\ failedRuns = 0
    /\ fin = NoInput
    /\ fout = "none"
    /\ risk = [p \in Phones |-> 0]

NextFollowup ==
    \/ QueueAll
    \/ \E p \in Phones : Tick(p)

SpecFollowup == InitFollowup /\ [][NextFollowup]_vars

-----------------------------------------------------------------------------
(* The automatic operations together: inbound handling with escalation and *)
(* CCB generation, the campaign and the follow-up sweep, while the         *)
(* operator takes a contact over and hands it back.                        *)

NextAutomation ==
    \/ Inbound(MaxInbound, {"p1"}, {TxtJa, TxtScam}, {"interest"}, {TRUE},
               {s \in Strategies : s.recommended = "none" /\ s.current = "INTRO"
                                      /\ s.risk_score = 0},
               Replies, {FALSE})
    \/ \E targets \in TargetLists : CampaignStart(targets)
    \/ CampaignPrepared
    \/ CampaignDelayDone
    \/ \E ok \in BOOLEAN : CampaignSendResult(ok)
    \/ QueueAll
    \/ Takeover("p1")
    \/ ResumeBot("p1")

SpecAutomation == Init /\ [][NextAutomation]_vars

\* SpecCCB: replies from a contact whose stored history is short, or as long
\* as or longer than the 50 rows conversations.getByPhone returns
StoredTurnCounts == {0, 1, 2, 3, 47, 48, 49, 50, 51, 52}

CCBRows ==
    [exists : {TRUE}, consent_status : {"OPTED_IN"}, pipeline_stage : {"INTRO", "QUALIFYING"},
     bot_paused : {FALSE}, human_required : {FALSE}, ccb : BOOLEAN]

\* a stored history of n rows: the opener, then replies and answers in turn
AlternatingTurns(n) == [k \in 1..n |-> IF k % 2 = 1 THEN "outgoing" ELSE "incoming"]

InitCCB ==
    /\ contacts \in {[p \in Phones |-> IF p = "p1" THEN r ELSE NoRow] : r \in CCBRows}
    /\ conv \in {[p \in Phones |-> IF p = "p1" THEN n ELSE 0] : n \in StoredTurnCounts}
    /\ turns = [p \in Phones |-> AlternatingTurns(conv[p])]
    /\ elapsed = [p \in Phones |-> 0]
    /\ messageQueue = <<>>
    /\ settings = [global_send_enabled |-> "true", auto_reply_enabled |-> "true"]
    /\ errorCount = 0
    /\ events = <<>>
    /\ handlers = [h \in Handlers |-> IdleHandler]
    /\ campaign = IdleCampaign
    /\ arrived = 0
    /\ ops = 0
    /\ failedRuns = 0
    /\ fin = NoInput
    /\ fout = "none"
    /\ risk = [p \in Phones |-> 0]

NextCCB ==
    Inbound(MaxInbound, {"p1"}, {TxtJa}, {"interest", "other"}, BOOLEAN,
            {s \in Strategies : s.recommended = "none" /\ s.current = "INTRO"
                                   /\ s.risk_score = 0},
            Replies, {FALSE})

SpecCCB == InitCCB /\ [][NextCCB]_vars

\* SpecGenerate: generateCCB for one contact under pass-A and pass-B answers
\* that may be null, recommend a stage, echo any current stage and carry a
\* risk_score
GenerateStrategies ==
    {s \in Strategies : /\ s.recommended \in {"none", "INTRO", "QUALIFYING"}
                        /\ s.current \in {"INTRO", "QUALIFYING"}
                        /\ s.risk_score \in {0, 10}}

NextGenerate ==
    Inbound(MaxInbound, {"p1"}, {TxtJa}, {"interest", "other"}, BOOLEAN,
            GenerateStrategies, Replies \cup {<<>>}, {FALSE})

SpecGenerate == Init /\ [][NextGenerate]_vars

\* SpecNudge: sweeps over one contact whose history grows: the contact
\* replies, the bot answers, the operator sends by hand, and time passes
Outgoing(n) == [k \in 1..n |-> "outgoing"]

NudgeHistories ==
    {Outgoing(1), Outgoing(3), Outgoing(4), Outgoing(5), <<"incoming">> \o Outgoing(4)}

InitNudge ==
    /\ contacts = [p \in Phones |-> IF p = "p1"
                                     THEN [NewRow EXCEPT !.consent_status = "OPTED_IN"]
                                     ELSE NoRow]
    /\ turns \in {[p \in Phones |-> IF p = "p1" THEN t ELSE <<>>] : t \in NudgeHistories}
    /\ conv = [p \in Phones |-> Len(turns[p])]
    /\ elapsed \in {[p \in Phones |-> IF p = "p1" THEN m ELSE 0] : m \in ElapsedSteps}
    /\ messageQueue = <<>>
    /\ settings = [global_send_enabled |-> "true", auto_reply_enabled |-> "true"]
    /\ errorCount = 0
    /\ events = <<>>
    /\ handlers = [h \in Handlers |-> IdleHandler]
    /\ campaign = IdleCampaign
    /\ arrived = 0
    /\ ops = 0
    /\ failedRuns = 0
    /\ fin = NoInput
    /\ fout = "none"
    /\ risk = [p \in Phones |-> 0]

NextNudge ==
    \/ Inbound(MaxInbound, {"p1"}, {TxtJa}, {"other"}, BOOLEAN,
               {s \in Strategies : s.recommended = "none" /\ s.current = "INTRO"
                                      /\ s.risk_score = 0},
               {<<PlainMsg>>}, {FALSE})
    \/ QueueAll
    \/ Tick("p1")
    \/ MessageSend("p1")

SpecNudge == InitNudge /\ [][NextNudge]_vars

-----------------------------------------------------------------------------
(* Claims *)

HasEvent(evs, type, p) == \E i \in DOMAIN evs : evs[i].type = type /\ evs[i].phone = p

\* safeSend or executeCampaign passes a message to client.sendMessage in this step
HandsOff(h) == handlers[h].pc = "delay" /\ handlers'[h].pc = "sending"

CampaignHandsOff == campaign.pc # "sending" /\ campaign'.pc = "sending"

\* C1: whenever an automatic send path hands a message to the transport, the
\* consent_status of the contact it is for is not DND
C1_NoHandOffToDND ==
    [][/\ \A h \in Handlers :
            HandsOff(h) => contacts[handlers[h].phone].consent_status # "DND"
       /\ CampaignHandsOff =>
            contacts'[campaign'.targets[campaign'.i]].consent_status # "DND"]_vars

\* inbound texts that contain an opt-out phrase, in upper, lower or mixed case
OptOutBodies == {TxtStop, TxtHoerAuf}

\* C2: an inbound text containing an opt-out phrase, whatever the letter case and
\* whatever the contact's stage and consent, leaves the contact with
\* consent_status DND and bot_paused true and appends a DND_SET event
C2_OptOutSetsDND ==
    [][\A h \in Handlers, p \in Phones, body \in OptOutBodies, similar \in BOOLEAN :
          HStart(h, p, body, similar) =>
              /\ contacts'[p].consent_status = "DND"
              /\ contacts'[p].bot_paused
              /\ HasEvent(events', "DND_SET", p)]_vars

\* an opt-out has been processed for a contact that had already won
C2_Witness ==
    /\ arrived = 1
    /\ HasEvent(events, "DND_SET", "p1")
    /\ contacts["p1"].pipeline_stage = "WON"
    /\ contacts["p1"].consent_status = "DND"
    /\ contacts["p1"].human_required

\* killSwitch.recordError is called in this step: a send is rejected by the
\* transport, or the classifier's null answer makes the handler throw
RecordErrorCalled ==
    \E h \in Handlers :
        \/ handlers[h].pc = "sending" /\ handlers'[h].pc = "sent" /\ handlers'[h].failed
        \/ handlers[h].pc = "classify" /\ handlers'[h].pc = "idle"

\* killSwitch.recordSuccess is called in this step: a handling reaches its last line
RecordSuccessCalled ==
    \E h \in Handlers :
        /\ handlers[h].kind = "reply"
        /\ handlers[h].pc \in {"respond", "sent"}
        /\ handlers'[h].pc = "idle"

Tripped(evs) == HasEvent(evs, "CIRCUIT_BREAKER_TRIPPED", "SYSTEM")

\* C3: every recordError adds one to the counter and turns global_send_enabled
\* off exactly when the counter has reached maxConsecutiveErrors, every
\* recordSuccess sets the counter to zero, nothing else but resume changes the
\* counter, and sending is only disabled by the breaker at the threshold or by
\* the operator
C3_BreakerCountsExactly ==
    [][/\ RecordErrorCalled =>
            /\ errorCount' = errorCount + 1
            /\ IF errorCount' >= maxConsecutiveErrors
               THEN ~IsGlobalSendEnabled(settings') /\ Tripped(events')
               ELSE /\ settings' = settings
                    /\ ~Tripped(events')
       /\ RecordSuccessCalled => errorCount' = 0 /\ settings' = settings
       /\ (~RecordErrorCalled /\ ~RecordSuccessCalled /\ ~Resume) => errorCount' = errorCount
       /\ (IsGlobalSendEnabled(settings) /\ ~IsGlobalSendEnabled(settings')) =>
            \/ RecordErrorCalled /\ errorCount' >= maxConsecutiveErrors
            \/ ops' = ops + 1]_vars

\* the third error in a row trips the breaker while another handling is in flight
C3_Witness ==
    /\ errorCount = maxConsecutiveErrors
    /\ ~IsGlobalSendEnabled(settings)
    /\ Tripped(events)
    /\ \E h \in Handlers : handlers[h].pc = "sent" /\ handlers[h].failed

\* C4: after maxConsecutiveErrors handlings in a row that each ended with their
\* send failing at the transport, with no send succeeding in between,
\* global_send_enabled is false
C4_FailedRunsTrip ==
    failedRuns >= maxConsecutiveErrors => ~IsGlobalSendEnabled(settings)

\* C5: once global_send_enabled is off, the only step that turns it on again is
\* the kill switch's resume, which sets the error counter to zero
C5_OnlyResumeReenables ==
    [][(~IsGlobalSendEnabled(settings) /\ IsGlobalSendEnabled(settings')) => Resume]_vars

\* the moves of the transition table; every other pair keeps the stage
TableMoves ==
    ({"INTRO"} \X {"interest", "question", "pricing", "greeting", "confirmation"}
        \X {"QUALIFYING"})
    \cup ({"QUALIFYING"} \X {"appointment"} \X {"BOOKING"})
    \cup ({"QUALIFYING"} \X {"interest", "confirmation", "question", "thanks"}
        \X {"VALUE_DELIVERY"})
    \cup ({"VALUE_DELIVERY"} \X {"appointment", "confirmation", "interest", "thanks"}
        \X {"BOOKING"})
    \cup ({"BOOKING"} \X {"confirmation"} \X {"WON"})
    \cup ({"FOLLOW_UP"} \X {"interest", "question", "confirmation"} \X {"QUALIFYING"})
    \cup ({"INTRO", "QUALIFYING", "VALUE_DELIVERY", "BOOKING", "FOLLOW_UP"}
        \X {"not_interested"} \X {"LOST"})
    \cup ({"LOST"} \X {"interest"} \X {"QUALIFYING"})

TableNext(stage, intent) ==
    IF \E m \in TableMoves : m[1] = stage /\ m[2] = intent
    THEN (CHOOSE m \in TableMoves : m[1] = stage /\ m[2] = intent)[3]
    ELSE stage

\* C6: for every stage and every classifier answer, inside or outside the declared
\* intents, getNextStage returns the stage the transition table gives, and the
\* stage itself where the table lists no move
C6_StageTable == fout # "none" => fout \in Stages /\ fout = TableNext(fin[1], fin[2])

\* a lost contact that shows interest again is re-opened
C6_Witness == fin = <<"LOST", "interest">> /\ fout = "QUALIFYING"

\* C7: a contact whose pipeline_stage is WON or DND keeps that stage in every step
C7_TerminalStagesKept ==
    [][\A p \in Phones :
          (contacts[p].exists /\ contacts[p].pipeline_stage \in {"WON", "DND"}) =>
              contacts'[p].pipeline_stage = contacts[p].pipeline_stage]_vars

\* C8: a step that changes a contact's pipeline_stage appends a STAGE_CHANGED event
\* for the contact whose reason carries the classified intent, and a step that
\* leaves the stage as it was appends no STAGE_CHANGED event for the contact
C8_StageChangeLogged ==
    [][\A p \in Phones :
          IF contacts'[p].pipeline_stage # contacts[p].pipeline_stage
          THEN \E i \in DOMAIN events' :
                  /\ events'[i].type = "STAGE_CHANGED"
                  /\ events'[i].phone = p
                  /\ events'[i].detail[2] = "Intent"
                  /\ events'[i].detail[3] \in Intents
          ELSE ~HasEvent(events', "STAGE_CHANGED", p)]_vars

\* C9: no reply is handed to the transport for a contact whose human_required
\* flag is set
C9_NoHandOffWhileHumanRequired ==
    [][\A h \in Handlers :
          HandsOff(h) => ~contacts[handlers[h].phone].human_required]_vars

\* the handling has run its stage transition and has not ended
PastTransition(h) ==
    /\ handlers[h].kind = "reply"
    /\ handlers[h].pc \in {"facts", "strategy", "respond", "delay", "sending", "sent"}

\* C10: two handlings of the same contact never have both run their stage
\* transition while neither has ended
C10_OneHandlingPerContact ==
    \A g, h \in Handlers :
        (g # h /\ handlers[g].phone = handlers[h].phone) =>
            ~(PastTransition(g) /\ PastTransition(h))

\* C11: whenever executeCampaign hands an opener to the transport,
\* global_send_enabled is true and the target is neither DND, nor bot_paused,
\* nor human_required
C11_CampaignHandOffGated ==
    [][CampaignHandsOff =>
          LET t == campaign'.targets[campaign'.i]
          IN  /\ IsGlobalSendEnabled(settings')
              /\ contacts'[t].consent_status # "DND"
              /\ ~contacts'[t].bot_paused
              /\ ~contacts'[t].human_required]_vars

\* C12: every contact whose pipeline_stage is DND has consent_status DND
C12_StageDNDImpliesConsentDND ==
    \A p \in Phones :
        contacts[p].pipeline_stage = "DND" => contacts[p].consent_status = "DND"

\* C13: no step of inbound handling lowers the stored risk_score of a contact
C13_RiskNeverLowered == [][\A p \in Phones : risk'[p] >= risk[p]]_vars

\* C14: validate reports a length violation for a message longer than the
\* configured maximum, and a forbidden_claim violation for a message that contains
\* a forbidden claim in any letter case; in both cases the message is not valid
ClaimTexts == {TxtGuaranteedUpper, TxtNoRisk, TxtRiskFree}

ConfiguredMax ==
    IF fin.max = <<"1","0">> THEN 10 ELSE IF fin.max = <<"a","b","c">> THEN -1 ELSE 420

C14_LengthAndClaimReported ==
    fout.done =>
        /\ (ConfiguredMax >= 0 /\ fin.len > ConfiguredMax)
              => ("length" \in fout.violations /\ ~fout.valid)
        /\ fin.text \in ClaimTexts
              => ("forbidden_claim" \in fout.violations /\ ~fout.valid)

C14_Witness ==
    /\ fout.done
    /\ fin.text = TxtGuaranteedUpper
    /\ fin.len = MaxCharsPerMessage + 1
    /\ fin.max = <<>>
    /\ fout.violations = {"length", "forbidden_claim"}

\* C15: isTooSimilar flags every candidate that is identical to one of the
\* contact's recent outbound messages, for every text and every threshold below 1
C15_IdenticalFlagged ==
    (fout.done /\ fin.kind = "isTooSimilar" /\ fin.phone # "none"
       /\ \E k \in 1..Len(fin.rows) :
             fin.rows[k].direction = "outgoing" /\ fin.rows[k].message = fin.message)
    => fout.result.similar

\* C16: jaccardSimilarity(A, A) is 1 for every non-empty A, jaccardSimilarity(A, B)
\* is 0 whenever A and B share no shingle, and it is 0 when both sets are empty
C16_JaccardLaws ==
    (fout.done /\ fin.kind = "jaccard") =>
        /\ (fin.setA = fin.setB /\ fin.setA # {})
              => (fout.result.num = fout.result.den /\ fout.result.den > 0)
        /\ (fin.setA \cap fin.setB = {})
              => (fout.result.num = 0 /\ fout.result.den > 0)

C16_Witness ==
    /\ fout.done
    /\ fin.kind = "jaccard"
    /\ fin.setA = {} /\ fin.setB = {}
    /\ fout.result = [num |-> 0, den |-> 1]

\* C17: followup.check returns needsFollowUp = false for every contact whose most
\* recent conversation turn is incoming, for every elapsed time and earlier history
C17_NoFollowUpAfterInbound ==
    \A p \in Phones :
        (turns[p] # <<>> /\ turns[p][Len(turns[p])] = "incoming")
        => ~Check(LastRows(turns[p], 10), elapsed[p]).needsFollowUp

C17_Witness ==
    /\ ops > 0
    /\ turns["p1"] = <<"outgoing", "outgoing", "incoming">>
    /\ elapsed["p1"] = 4 * 60
    /\ contacts["p1"] = NewRow
    /\ \A k \in 1..Len(messageQueue) : messageQueue[k].phone # "p1"

\* C18: for one unanswered run of a contact the scheduler queues the long-range
\* reminder at most once, over any number of sweeps
C18_ReminderQueuedOnce ==
    \A p \in Phones :
        Cardinality({k \in 1..Len(messageQueue) :
                       messageQueue[k].phone = p
                       /\ messageQueue[k].messageType = "reminder_4h"}) <= 1

\* C19: a send blocked by canSend, a message rejected by the validator, a
\* similarity flag, and a failed or malformed classifier or CCB language-model
\* call neither raise killSwitch.errorCount nor turn global_send_enabled off
PolicyBlock ==
    \E k \in 1..Len(events') :
        events'[k].type \in {"SEND_BLOCKED", "VALIDATION_FAILED", "FINGERPRINT_FLAGGED"}

ModelCallDegraded ==
    \E h \in Handlers :
        \/ \E r \in {"junk", "null"} : HClassified(h, r)
        \/ HFacts(h, FALSE)
        \/ \E s \in Strategies : HStrategy(h, FALSE, s)

C19_DegradationsLeaveBreaker ==
    [][(PolicyBlock \/ ModelCallDegraded) =>
          /\ errorCount' <= errorCount
          /\ IsGlobalSendEnabled(settings) => IsGlobalSendEnabled(settings')]_vars

\* C20: the pipeline step for an inbound text that contains a rejection phrase
\* ("Nein danke") moves a contact in QUALIFYING to LOST, whatever the classifier
\* returned or however it failed
C20_RejectionMovesToLost ==
    [][\A h \in Handlers :
          (/\ handlers[h].pc = "classify"
           /\ handlers'[h].pc # "classify"
           /\ contacts[handlers[h].phone].pipeline_stage = "QUALIFYING")
          => contacts'[handlers[h].phone].pipeline_stage = "LOST"]_vars

\* C21: canSend allows exactly when global_send_enabled is 'true' and the contact
\* has no row or is not DND, not bot_paused and not human_required; with the toggle
\* off the reason is global_send_disabled whatever the contact's state, otherwise
\* contact_blocked; the error counter plays no part
C21_CanSendDecision ==
    fout.done =>
        LET c == contacts[fin]
            on == settings.global_send_enabled = "true"
            free == ~c.exists \/ (c.consent_status # "DND" /\ ~c.bot_paused
                                    /\ ~c.human_required)
        IN  /\ fout.result.allowed <=> (on /\ free)
            /\ ~on => fout.result.reason = "global_send_disabled"
            /\ (on /\ ~free) => fout.result.reason = "contact_blocked"

C21_Witness ==
    /\ fout.done
    /\ settings.global_send_enabled = "false"
    /\ contacts[fin].exists /\ contacts[fin].human_required
    /\ errorCount = 0
    /\ fout.result = [allowed |-> FALSE, reason |-> "global_send_disabled"]

ExpectedTriggers(body) == IF body = TxtScam THEN 1 ELSE 3

PipelinePcs == {"classify", "facts", "strategy", "respond"}

C23_EscalationShortCircuits ==
    [][/\ \A h \in Handlers, body \in {TxtScam, TxtScamPolice} :
            HStart(h, "p1", body, FALSE) =>
              LET n == ExpectedTriggers(body)
                  sum == risk["p1"] + 15 * n
              IN  /\ contacts'["p1"].human_required
                  /\ risk'["p1"] = IF sum > 100 THEN 100 ELSE sum
                  /\ Cardinality({k \in 1..Len(events') :
                                    events'[k].type = "ESCALATION_TRIGGERED"}) = 1
                  /\ \E k \in 1..Len(events') :
                        events'[k] = Ev("ESCALATION_TRIGGERED", "p1", <<n>>)
                  /\ \A k \in 1..Len(events') :
                        events'[k].type \notin {"INTENT_CLASSIFIED", "STAGE_CHANGED",
                                                "CCB_GENERATED"}
                  /\ contacts'["p1"].pipeline_stage = contacts["p1"].pipeline_stage
                  /\ contacts'["p1"].ccb = contacts["p1"].ccb
                  /\ handlers'[h].pc \notin PipelinePcs
       /\ \A h \in Handlers :
            handlers[h].kind = "hold" => handlers'[h].pc \notin PipelinePcs]_vars

\* an escalation with three triggers on a stored score of 60 stops at 100
C23_Witness ==
    /\ risk["p1"] = 100
    /\ contacts["p1"].human_required
    /\ events # <<>>
    /\ events[Len(events)].type \in {"ESCALATION_TRIGGERED", "SEND_BLOCKED"}
    /\ \E k \in 1..Len(events) : events[k] = Ev("ESCALATION_TRIGGERED", "p1", <<3>>)

\* C24: for an inbound text with no opt-out phrase, processInbound changes
\* consent_status to OPTED_IN and appends exactly one CONSENT_CHANGED event when
\* the consent is UNKNOWN or SOFT_OPTIN_SENT, and leaves consent_status unchanged
\* with no consent event when it is OPTED_IN or DND
ConsentEvents(evs) ==
    Cardinality({k \in 1..Len(evs) : evs[k].type \in {"CONSENT_CHANGED", "DND_SET"}})

C24_ReplyPromotesConsent ==
    [][\A h \in Handlers, body \in {TxtJa, TxtScam}, similar \in BOOLEAN :
          HStart(h, "p1", body, similar) =>
              IF contacts["p1"].consent_status \in {"UNKNOWN", "SOFT_OPTIN_SENT"}
              THEN /\ contacts'["p1"].consent_status = "OPTED_IN"
                   /\ ConsentEvents(events') = 1
                   /\ HasEvent(events', "CONSENT_CHANGED", "p1")
              ELSE /\ contacts'["p1"].consent_status = contacts["p1"].consent_status
                   /\ ConsentEvents(events') = 0]_vars

\* a contact in a late stage whose consent was promoted by its reply
C24_Witness ==
    /\ arrived = 1
    /\ contacts["p1"].consent_status = "OPTED_IN"
    /\ contacts["p1"].pipeline_stage = "BOOKING"
    /\ HasEvent(events, "CONSENT_CHANGED", "p1")
    /\ ~HasEvent(events, "DND_SET", "p1")

\* C25: the handling of an inbound message that matches an opt-out phrase runs no
\* escalation, no intent classification, no stage transition and no CCB
\* generation: human_required, risk_score, pipeline_stage and the stored CCB are
\* as before, even when the text also contains an escalation keyword
C25_OptOutSkipsPipeline ==
    [][/\ \A h \in Handlers, body \in {TxtStop, TxtStopScam}, similar \in BOOLEAN :
            HStart(h, "p1", body, similar) =>
              /\ contacts'["p1"].human_required = contacts["p1"].human_required
              /\ risk' = risk
              /\ contacts'["p1"].pipeline_stage = contacts["p1"].pipeline_stage
              /\ contacts'["p1"].ccb = contacts["p1"].ccb
              /\ \A k \in 1..Len(events') :
                    events'[k].type \notin {"ESCALATION_TRIGGERED", "HUMAN_TAKEOVER",
                                            "INTENT_CLASSIFIED", "STAGE_CHANGED",
                                            "CCB_GENERATED"}
              /\ handlers'[h].pc \notin PipelinePcs
       /\ \A h \in Handlers :
            handlers[h].kind = "ack" => handlers'[h].pc \notin PipelinePcs]_vars

\* "Stop, scam!" from a contact in QUALIFYING that no human had to see
C25_Witness ==
    /\ arrived = 1
    /\ HasEvent(events, "DND_SET", "p1")
    /\ ~contacts["p1"].human_required
    /\ contacts["p1"].pipeline_stage = "QUALIFYING"
    /\ contacts["p1"].consent_status = "DND"
    /\ ~contacts["p1"].ccb

\* C26: when an inbound message triggers an opt-out and global sending is
\* enabled for a contact that could be written to until then, the fixed
\* acknowledgment passes the gates of safeSend and is on its way to the transport
C26_AcknowledgmentSent ==
    [][\A h \in Handlers, body \in {TxtStop, TxtHoerAuf, TxtStopScam}, similar \in BOOLEAN :
          (HStart(h, "p1", body, similar) /\ IsGlobalSendEnabled(settings)
             /\ IsSendAllowed(contacts, "p1")) =>
              /\ handlers'[h].pc = "delay"
              /\ handlers'[h].queue = <<AckReply>>
              /\ ~HasEvent(events', "SEND_BLOCKED", "p1")]_vars

\* C27: when an inbound message triggers escalation and global sending is
\* enabled for a contact that could be written to until then, the fixed holding
\* reply passes the gates of safeSend and is on its way to the transport
C27_HoldingReplySent ==
    [][\A h \in Handlers, similar \in BOOLEAN :
          (HStart(h, "p1", TxtScam, similar) /\ IsGlobalSendEnabled(settings)
             /\ IsSendAllowed(contacts, "p1")) =>
              /\ handlers'[h].pc = "delay"
              /\ handlers'[h].queue = <<HoldingReply>>
              /\ ~HasEvent(events', "SEND_BLOCKED", "p1")]_vars

\* C28: safeSend runs canSend, validate, the similarity check and the transport
\* in that order: a message starts towards the transport only in a step in which
\* canSend allowed it and validate found no violation, it reaches the transport
\* only from there, and the outgoing turn and the OUTBOUND_MESSAGE event are
\* recorded only in the step in which the transport call succeeded
OutgoingTurnAdded(p) ==
    /\ Len(turns'[p]) > Len(turns[p])
    /\ turns'[p][Len(turns'[p])] = "outgoing"

C28_SafeSendOrder ==
    [][/\ \A h \in Handlers :
            /\ (handlers[h].pc # "delay" /\ handlers'[h].pc = "delay") =>
                  LET q == handlers'[h].phone
                  IN  /\ CanSend(contacts', settings', q).allowed
                      /\ Violations(Head(handlers'[h].queue), contacts', q) = {}
            /\ (handlers[h].pc # "sending" /\ handlers'[h].pc = "sending") =>
                  /\ handlers[h].pc = "delay"
                  /\ handlers'[h].queue = handlers[h].queue
       /\ \A p \in Phones :
            (HasEvent(events', "OUTBOUND_MESSAGE", p) \/ OutgoingTurnAdded(p)) =>
                /\ \E h \in Handlers :
                      /\ handlers[h].pc = "sending" /\ handlers[h].phone = p
                      /\ handlers'[h].pc = "sent" /\ ~handlers'[h].failed
                /\ HasEvent(events', "OUTBOUND_MESSAGE", p)
                /\ OutgoingTurnAdded(p)
                /\ \A k \in 1..Len(events') :
                      events'[k].type \notin {"SEND_BLOCKED", "VALIDATION_FAILED",
                                              "SEND_ERROR"}]_vars

\* a reply went out for p1, and the handling of p2 has ended without any send
C28_Witness ==
    /\ HasEvent(events, "OUTBOUND_MESSAGE", "p1")
    /\ turns["p1"] = <<"incoming", "outgoing">>
    /\ turns["p2"] = <<"incoming">>
    /\ \A h \in Handlers : handlers[h].phone # "p2"
    /\ contacts["p2"].exists /\ ~contacts["p2"].human_required
    /\ contacts["p2"].consent_status = "OPTED_IN"

\* C29: while global_send_enabled is false, a running executeCampaign begins no
\* new pacing delay and hands an opener to the transport only for the target
\* whose delay or send was already under way; its next pass through the loop
\* ends the task and records the first remaining target that is not skipped as
\* stopped (kill_switch); and a campaign running with the toggle off ends
\* unless the toggle is turned on again
Skipped(cs, cv, t) ==
    \/ cs[t].exists /\ cs[t].consent_status \in {"DND", "SOFT_OPTIN_SENT", "OPTED_IN"}
    \/ cv[t] > 0

CampaignAdvances == campaign.pc \in {"prepare", "sending"} /\ campaign' # campaign

C29_KillSwitchStopsCampaign ==
    /\ [][~IsGlobalSendEnabled(settings') =>
            /\ campaign'.pc = "delay" => campaign' = campaign
            /\ campaign'.pc = "sending" =>
                  /\ campaign.pc \in {"delay", "sending"}
                  /\ campaign'.i = campaign.i
                  /\ campaign'.targets = campaign.targets
            /\ CampaignAdvances =>
                  LET rest == {k \in (campaign.i + 1)..Len(campaign.targets) :
                                  ~Skipped(contacts', conv', campaign.targets[k])}
                      first == CHOOSE k \in rest : \A j \in rest : k <= j
                  IN  /\ campaign'.pc = "idle"
                      /\ campaign'.stopped = IF rest = {} THEN "none"
                                             ELSE campaign.targets[first]]_vars
    /\ (~IsGlobalSendEnabled(settings) /\ campaign.pc # "idle")
           ~> (campaign.pc = "idle" \/ IsGlobalSendEnabled(settings))

\* the opener for p1 went out, the toggle was turned off, and the task ended
\* with p2 recorded as stopped and never contacted
C29_Witness ==
    /\ ~IsGlobalSendEnabled(settings)
    /\ campaign.pc = "idle"
    /\ campaign.stopped = "p2"
    /\ contacts["p1"].consent_status = "SOFT_OPTIN_SENT"
    /\ conv["p2"] = 0

\* C30: processMessage goes on to generateCCB exactly when the contact has no
\* stored CCB, or the stage changed in this run, or the number of conversation
\* rows stored for the contact is a multiple of 3, whatever that number is
C30_RegenerationCadence ==
    [][\A h \in Handlers :
          (handlers[h].pc = "classify" /\ handlers'[h].pc \in {"facts", "respond"}) =>
              LET p == handlers[h].phone
              IN  handlers'[h].pc = "facts" <=>
                     \/ ~(contacts[p].exists /\ contacts[p].ccb)
                     \/ contacts'[p].pipeline_stage # contacts[p].pipeline_stage
                     \/ conv[p] % 3 = 0]_vars

\* C31: when pass A or pass B returns null, generateCCB leaves the contact's
\* stored CCB, pipeline_stage and risk_score as they were, appends neither
\* CCB_GENERATED nor STAGE_CHANGED, leaves the error counter alone, and the
\* handler goes on to generate its reply
NullPass(h) ==
    \/ HFacts(h, FALSE)
    \/ \E s \in GenerateStrategies : HStrategy(h, FALSE, s)

C31_NullPassChangesNothing ==
    [][\A h \in Handlers :
          NullPass(h) =>
              /\ contacts' = contacts
              /\ risk' = risk
              /\ \A k \in 1..Len(events') :
                    events'[k].type \notin {"CCB_GENERATED", "STAGE_CHANGED"}
              /\ errorCount' = errorCount /\ failedRuns' = failedRuns
              /\ handlers'[h].pc = "respond"]_vars

\* a second run for a contact with a stored CCB, a moved stage and a stored
\* risk_score went through a null pass and is about to generate its reply
C31_Witness ==
    \E h \in Handlers :
        /\ handlers[h].pc = "respond" /\ handlers[h].phone = "p1"
        /\ events = <<>>
        /\ contacts["p1"].ccb /\ contacts["p1"].pipeline_stage = "QUALIFYING"
        /\ risk["p1"] = 10
        /\ conv["p1"] = 3

\* C32: a successful regeneration stores the bundle, and it writes
\* pipeline_stage, appending one STAGE_CHANGED event, exactly when the
\* recommended stage differs from the stage stored for the contact; when the two
\* are equal there is no stage write and no STAGE_CHANGED event
StageChangedCount(evs) == Len(SelectSeq(evs, LAMBDA e : e.type = "STAGE_CHANGED"))

C32_StageAppliedWhenDifferent ==
    [][\A h \in Handlers : \A s \in GenerateStrategies :
          HStrategy(h, TRUE, s) =>
              LET p == handlers[h].phone
                  stored == contacts[p].pipeline_stage
              IN  /\ contacts'[p].ccb
                  /\ IF s.recommended # "none" /\ s.recommended # stored
                     THEN /\ contacts'[p].pipeline_stage = s.recommended
                          /\ StageChangedCount(events') = 1
                     ELSE /\ contacts'[p].pipeline_stage = stored
                          /\ StageChangedCount(events') = 0]_vars

\* C33: validate answers valid exactly when it reports no violation; every
\* rule the message breaks (length, forbidden claim, forbidden pattern, link
\* policy, bot identity) is among the violations, several of them at once when
\* several are broken; and the hasCTA advisory has no part in valid
LinkTexts == {TxtWww, TxtHttp, TxtDotOrg}

LinkBlocked ==
    /\ fin.text \in LinkTexts
    /\ fin.policy \in {"", "no_links_until_engagement"}
    /\ fin.stage \in {"INTRO", "QUALIFYING", "missing"}

BrokenRules ==
    {r \in {"length", "forbidden_claim", "forbidden_pattern", "link_policy", "identity"} :
        \/ r = "length" /\ ConfiguredMax >= 0 /\ fin.len > ConfiguredMax
        \/ r = "forbidden_claim" /\ fin.text \in ClaimTexts
        \/ r = "forbidden_pattern" /\ fin.pattern
        \/ r = "link_policy" /\ LinkBlocked
        \/ r = "identity" /\ fin.identity}

C33_ValidIffNoViolation ==
    fout.done =>
        /\ fout.valid <=> fout.violations = {}
        /\ fout.violations = BrokenRules
        /\ fout.valid <=> BrokenRules = {}
        /\ fout.hasCTA = fin.cta

\* a message with a call to action that breaks four rules at once
C33_Witness ==
    /\ fout.done
    /\ fout.hasCTA
    /\ ~fout.valid
    /\ fout.violations = {"length", "forbidden_pattern", "link_policy", "identity"}

\* C34: validate reports link_policy exactly when the message contains a
\* URL-like token, link_policy is no_links_until_engagement or absent, and the
\* contact's stage is INTRO or QUALIFYING, a missing contact counting as INTRO;
\* with always_allowed it never reports link_policy
C34_LinkPolicy ==
    fout.done =>
        /\ "link_policy" \in fout.violations <=> LinkBlocked
        /\ fin.policy = "always_allowed" => "link_policy" \notin fout.violations

\* a link written in capitals, no stored policy, no contact: blocked
C34_Witness ==
    /\ fout.done
    /\ fin.text = TxtWww
    /\ fin.policy = ""
    /\ fin.stage = "missing"
    /\ fout.violations = {"link_policy"}

\* C35: a sweep neither returns nor queues a follow-up for a contact whose
\* consent_status is DND, whose bot is paused, who is human_required, or whose
\* pipeline_stage is WON, LOST or DND at the time of the sweep
SweepSkips(cs, p) ==
    \/ cs[p].consent_status = "DND"
    \/ cs[p].bot_paused
    \/ cs[p].human_required
    \/ cs[p].pipeline_stage \in {"WON", "LOST", "DND"}

RowsFor(q, p) == {k \in 1..Len(q) : q[k].phone = p}

C35_SweepSkipsBlocked ==
    [][\A p \in Phones :
          SweepSkips(contacts, p) =>
              /\ ~CheckAll(contacts, turns, elapsed, p).needsFollowUp
              /\ ~HasEvent(events', "FOLLOWUP_QUEUED", p)
              /\ RowsFor(messageQueue', p) = RowsFor(messageQueue, p)]_vars

\* a sweep has queued a nudge for p2 and passed over p1, who is human_required
\* and whose opener has been unanswered for 8 minutes
C35_Witness ==
    /\ ops > 0
    /\ contacts["p1"] = [NewRow EXCEPT !.human_required = TRUE]
    /\ turns["p1"] = <<"outgoing">>
    /\ elapsed["p1"] = 8
    /\ messageQueue = <<[phone |-> "p2", messageType |-> "nudge_1"]>>

\* C36: followup.check answers nudge_k exactly when the last turn is outgoing,
\* the run of outgoing turns that ends the history has length k in {1, 2, 3},
\* and the last turn is at least 8 minutes and less than 4 hours old; with such
\* a run and a last turn younger than 8 minutes it answers no follow-up
TrailingRun(ts) ==
    LET incoming == {k \in 1..Len(ts) : ts[k] = "incoming"}
    IN  IF incoming = {} THEN Len(ts)
        ELSE Len(ts) - (CHOOSE k \in incoming : \A j \in incoming : j <= k)

NudgeName(k) == IF k = 1 THEN "nudge_1" ELSE IF k = 2 THEN "nudge_2" ELSE "nudge_3"

C36_NudgeArchetype ==
    \A p \in Phones :
        LET r == Check(LastRows(turns[p], 10), elapsed[p])
            run == TrailingRun(turns[p])
        IN  /\ \A k \in 1..3 :
                  (r.needsFollowUp /\ r.messageType = NudgeName(k))
                  <=> (run = k /\ elapsed[p] >= 8 /\ elapsed[p] < 4 * 60)
            /\ (run \in 1..3 /\ elapsed[p] < 8) => ~r.needsFollowUp

\* a sweep has queued nudge_2 for p1, whose two messages after the contact's
\* reply have been unanswered for 8 minutes
C36_Witness ==
    /\ turns["p1"] = <<"outgoing", "incoming", "outgoing", "outgoing">>
    /\ elapsed["p1"] = 8
    /\ contacts["p1"] = NewRow
    /\ messageQueue = <<[phone |-> "p1", messageType |-> "nudge_2"]>>

\* C37: while the run of outgoing turns that ends a contact's history has
\* length 5 or more, followup.check answers no follow-up whatever the age of the
\* last turn and no sweep queues one, and the run stays that long until an
\* incoming turn is appended
LastTurn(ts) == ts[Len(ts)]

C37_SilentAfterFive ==
    [][\A p \in Phones :
          TrailingRun(turns[p]) >= 5 =>
              /\ ~Check(LastRows(turns[p], 10), elapsed[p]).needsFollowUp
              /\ ~HasEvent(events', "FOLLOWUP_QUEUED", p)
              /\ RowsFor(messageQueue', p) = RowsFor(messageQueue, p)
              /\ \/ TrailingRun(turns'[p]) >= 5
                 \/ LastTurn(turns'[p]) = "incoming"]_vars

\* both sweeps have run, nothing is queued, and six messages in a row have
\* been unanswered for four hours
C37_Witness ==
    /\ ops = MaxSweeps
    /\ messageQueue = <<>>
    /\ turns["p1"] = Outgoing(6)
    /\ elapsed["p1"] = 4 * 60
    /\ \A h \in Handlers : handlers[h].pc = "idle"

\* C38: whatever was queued before, once the history ends with an incoming turn
\* followed by one outgoing turn, the follow-up check answers is nudge_1 or
\* none, it is nudge_1 when the last turn is at least 8 minutes and less than 4
\* hours old, and a sweep queues only nudge_1 for the contact
EndsWithReplyThenOne(ts) ==
    Len(ts) >= 2 /\ ts[Len(ts)] = "outgoing" /\ ts[Len(ts) - 1] = "incoming"

C38_SequenceRestarts ==
    [][\A p \in Phones :
          EndsWithReplyThenOne(turns[p]) =>
              LET r == Check(LastRows(turns[p], 10), elapsed[p])
              IN  /\ r.needsFollowUp => r.messageType = "nudge_1"
                  /\ (elapsed[p] >= 8 /\ elapsed[p] < 4 * 60) => r.needsFollowUp
                  /\ \A k \in RowsFor(messageQueue', p) \ RowsFor(messageQueue, p) :
                        messageQueue'[k].messageType = "nudge_1"]_vars

\* the reminder was queued after four unanswered messages; the contact then
\* replied, the bot answered, and the next sweep queued nudge_1
C38_Witness ==
    /\ messageQueue = <<[phone |-> "p1", messageType |-> "reminder_4h"],
                        [phone |-> "p1", messageType |-> "nudge_1"]>>
    /\ turns["p1"] = Outgoing(4) \o <<"incoming", "outgoing">>
    /\ elapsed["p1"] = 8

\* C39: once the consent_status of a contact is DND, no step of inbound
\* handling, of a campaign or of a follow-up sweep changes it to another value
C39_DNDAbsorbing ==
    [][\A p \in Phones :
          contacts[p].consent_status = "DND" => contacts'[p].consent_status = "DND"]_vars

\* C40: executeCampaign hands an opener to the transport only for a contact
\* that is not SOFT_OPTIN_SENT, OPTED_IN or DND and has no conversation turn,
\* so that no contact is sent more than one opener
C40_OneOpenerPerContact ==
    [][CampaignHandsOff =>
          LET t == campaign'.targets[campaign'.i]
          IN  /\ contacts'[t].consent_status \notin {"SOFT_OPTIN_SENT", "OPTED_IN", "DND"}
              /\ conv'[t] = 0]_vars

====
